---- MODULE Spec2Model ----
(***************************************************************************)
(* A model of the linear-algebra engine of vmla-3: the arbitrary-precision *)
(* integer LongInt (src/src/longint.rs), the polynomial type Polynome      *)
(* (src/src/poly.rs), the dense Matrix (src/src/matrix.rs), the unpivoted  *)
(* LU factorisation (src/src/lu.rs), the three QR factorisations           *)
(* (src/src/qr.rs) and the tridiagonal characteristic polynomial           *)
(* (src/src/eigen.rs).                                                     *)
(*                                                                         *)
(* The algorithms are generic over a numeric type T.  The model carries T  *)
(* as a tag: "f32" (IEEE 754 binary32 scalars, held as triples             *)
(* <<sign, mant, exp>> and rounded to nearest by every operation as the    *)
(* hardware rounds them), "Complex" (a pair of such scalars) and "LongInt" *)
(* (sign flag + little-endian base-256 digit sequence, exactly as the code *)
(* stores it).                                                             *)
(* Vectors of the code are 0-based; the sequences of the model are 1-based *)
(* and every index is shifted by one where a sequence is read.             *)
(***************************************************************************)
EXTENDS Integers, Sequences, FiniteSets, TLC

VARIABLES
    pc,      \* position of the driver: "init" before the call, then the name of the call made
    ty,      \* the numeric type T the call is instantiated with
    mat,     \* the input matrix of an LU / QR / characteristic-polynomial call
    method,  \* the QR method selected, or the factorisation a solve starts from
    reortho_epsilon,  \* the re-orthogonalisation threshold of a Gram-Schmidt call
    out,     \* the value the call returned
    x,       \* LongInt register: the left operand and the result of each operation
    y,       \* LongInt register: the right operand (Fraction: the second fraction; solve: the right-hand side b)
    a0,      \* the value x was constructed with (solve: the first factor, L or Q)
    b0,      \* the value y was constructed with (solve: the second factor, U or R)
    hist,    \* the LongInt operations applied so far, oldest first
    st       \* "ok", or "panic" once a LongInt operation aborted the process

vars == <<pc, ty, mat, method, reortho_epsilon, out, x, y, a0, b0, hist, st>>

\* a let binding of the code: F applied to the value of v, computed once
Strict(v, F(_)) == CHOOSE res \in {F(w) : w \in {v}} : TRUE

(***************************************************************************)
(* Integer helpers                                                         *)
(***************************************************************************)
Abs(n) == IF n < 0 THEN -n ELSE n

Max(a, b) == IF a >= b THEN a ELSE b

RECURSIVE Pow(_, _)
Pow(b, e) == IF e = 0 THEN 1 ELSE b * Pow(b, e - 1)

RECURSIVE Gcd(_, _)
Gcd(a, b) == IF b = 0 THEN a ELSE Gcd(b, a % b)

Zeros(n) == [i \in 1..n |-> 0]

(***************************************************************************)
(* LongInt: src/src/longint.rs                                             *)
(***************************************************************************)
\* the digit base: digits are u8
Base == 256

LI(d, p) == [digits |-> d, positive |-> p]

\* LongInt::new
LongIntNew == LI(<<>>, TRUE)

\* i32::to_le_bytes of a non-negative value: always four bytes
ToLeBytes(n) == [i \in 1..4 |-> (n \div Pow(Base, i - 1)) % Base]

\* From<i32> of i32::MIN: x.abs() overflows there; a build with overflow
\* checks aborts on it, a build without them wraps to i32::MIN, whose bytes
\* are 0, 0, 0, 128
FromI32Min == [debug |-> [tag |-> "Panic"], release |-> LI(<<0, 0, 0, 128>>, FALSE)]

\* From<i32>: the four bytes of |x| as they are, the sign from x >= 0
FromI32(v) ==
    IF v = (-2147483647) - 1 THEN FromI32Min
    ELSE LI(ToLeBytes(Abs(v)), v >= 0)

\* LongInt::get: a digit of the sequence, 0 past its end
Get(a, ind) == IF ind >= Len(a.digits) THEN 0 ELSE a.digits[ind + 1]

\* LongInt::set: digits resized with zeros to ind + 1 where shorter, then
\* digit ind overwritten; the sign is kept
Set(a, ind, d) ==
    [a EXCEPT !.digits =
        [k \in 1..Max(Len(a.digits), ind + 1) |->
            IF k = ind + 1 THEN d ELSE IF k <= Len(a.digits) THEN a.digits[k] ELSE 0]]

\* LongInt::abs
LAbs(a) == LI(a.digits, TRUE)

\* Neg
LNeg(a) == LI(a.digits, ~a.positive)

\* PartialEq: digit sequences and sign flags compared as stored
LEq(a, b) == a.digits = b.digits /\ a.positive = b.positive

\* LongInt::trim on a digit vector: cut above the most significant non-zero
\* digit; a vector with no non-zero digit is left as it is
TrimDigits(s) ==
    LET nz == {i \in 1..Len(s) : s[i] # 0}
    IN  IF nz = {} THEN s
        ELSE SubSeq(s, 1, CHOOSE i \in nz : \A j \in nz : j <= i)

trim(a) == LI(TrimDigits(a.digits), a.positive)

\* LongInt::actual_length
actual_length(a) ==
    LET nz == {i \in 1..Len(a.digits) : a.digits[i] # 0}
    IN  IF nz = {} THEN 0 ELSE CHOOSE i \in nz : \A j \in nz : j <= i

\* LongInt::get_bit
get_bit(a, bit) ==
    LET digit == bit \div 8
        b     == bit - digit * 8
    IN  IF digit >= Len(a.digits) THEN FALSE
        ELSE (a.digits[digit + 1] \div Pow(2, b)) % 2 = 1

\* LongInt::set_bit
set_bit(a, bit, val) ==
    LET digit == bit \div 8
        b     == bit - digit * 8
        ds    == IF digit >= Len(a.digits)
                 THEN a.digits \o Zeros(digit + 1 - Len(a.digits))
                 ELSE a.digits
        old   == ds[digit + 1]
        clr   == old - ((old \div Pow(2, b)) % 2) * Pow(2, b)
    IN  LI([ds EXCEPT ![digit + 1] = IF val THEN clr + Pow(2, b) ELSE clr], a.positive)

\* LongInt::shift_left on a digit vector: the vector is resized with zeros
\* to old_len + by_digits and each old digit is copied up from the top; a
\* low position keeps its old digit where it had one and the zero of the
\* resize where it had none
shift_left(s, by_digits) ==
    LET old_len == Len(s)
    IN  [k \in 1..(old_len + by_digits) |->
            IF k > by_digits THEN s[k - by_digits]
            ELSE IF k <= old_len THEN s[k]
            ELSE 0]

\* LongInt::bit_shift_left: the bit count is masked with 3, the vector grows
\* by one digit, each digit is shifted and its overflow or-ed into the next
\* (the next digit was shifted before, so its low bits are clear and the or
\* is an addition)
bit_shift_left(a, by_bits) ==
    LET digit_shift == by_bits \div 8
        bit_shift   == by_bits % 4
        s           == shift_left(a.digits, digit_shift)
        old_len     == Len(s)
        f           == Pow(2, bit_shift)
        lo(k)       == (s[k] * f) % Base
        carry(k)    == (s[k] * f) \div Base
    IN  LI([k \in 1..(old_len + 1) |->
              (IF k <= old_len THEN lo(k) ELSE 0)
              + (IF k >= 2 THEN carry(k - 1) ELSE 0)],
           a.positive)

\* ord_ignore_sign: magnitudes compared digit by digit from the top
RECURSIVE OrdFrom(_, _, _)
OrdFrom(a, b, i) ==
    IF i < 0 THEN "Equal"
    ELSE IF Get(a, i) < Get(b, i) THEN "Less"
    ELSE IF Get(a, i) > Get(b, i) THEN "Greater"
    ELSE OrdFrom(a, b, i - 1)

ord_ignore_sign(a, b) == OrdFrom(a, b, Max(Len(a.digits), Len(b.digits)) - 1)

\* PartialOrd::partial_cmp
partial_cmp(a, b) ==
    IF a.positive /\ ~b.positive THEN "Greater"
    ELSE IF ~a.positive /\ b.positive THEN "Less"
    ELSE ord_ignore_sign(a, b)

LGe(a, b) == partial_cmp(a, b) \in {"Greater", "Equal"}
LGt(a, b) == partial_cmp(a, b) = "Greater"
LLt(a, b) == partial_cmp(a, b) = "Less"

\* add_ignore_sign: the digit loop with its u16 carry
RECURSIVE AddLoop(_, _, _, _, _, _)
AddLoop(a, b, i, len, carry, v) ==
    IF i >= len THEN (IF carry # 0 THEN Append(v, carry % Base) ELSE v)
    ELSE LET sum == Get(a, i) + Get(b, i) + carry
         IN  AddLoop(a, b, i + 1, len, sum \div Base, Append(v, sum % Base))

add_ignore_sign(a, b) ==
    trim(LI(AddLoop(a, b, 0, Max(Len(a.digits), Len(b.digits)), 0, <<>>), TRUE))

\* sub_ignore_sign, the Greater branch: where a's digit is below b's, b is
\* raised by one unit of the next digit and the digit pushed is
\* a[i] + u8::MAX - b[i]
RECURSIVE SubLoop(_, _, _, _, _)
SubLoop(a, b, i, len, v) ==
    IF i >= len THEN v
    ELSE IF Get(a, i) < Get(b, i)
         THEN LET carry == LI(Append(Zeros(i + 1), 1), TRUE)
                  b2    == add_ignore_sign(b, carry)
              IN  SubLoop(a, b2, i + 1, len,
                          Append(v, (Get(a, i) + 255 - Get(b2, i)) % Base))
         ELSE SubLoop(a, b, i + 1, len, Append(v, Get(a, i) - Get(b, i)))

SubGreater(a, b) ==
    trim(LI(SubLoop(a, b, 0, Max(Len(a.digits), Len(b.digits)), <<>>), TRUE))

sub_ignore_sign(a, b) ==
    LET o == ord_ignore_sign(a, b)
    IN  IF o = "Less" THEN LNeg(SubGreater(b, a))
        ELSE IF o = "Equal" THEN FromI32(0)
        ELSE SubGreater(a, b)

\* Add for LongInt: the four-way split on the operands' signs
LAdd(a, b) ==
    IF a.positive /\ b.positive THEN add_ignore_sign(a, b)
    ELSE IF a.positive /\ ~b.positive THEN sub_ignore_sign(a, b)
    ELSE IF ~a.positive /\ b.positive THEN LNeg(sub_ignore_sign(a, b))
    ELSE LNeg(add_ignore_sign(a, b))

\* Sub for LongInt
LSub(a, b) ==
    IF a.positive /\ b.positive THEN sub_ignore_sign(a, b)
    ELSE IF a.positive /\ ~b.positive THEN add_ignore_sign(a, b)
    ELSE IF ~a.positive /\ b.positive THEN LNeg(add_ignore_sign(a, b))
    ELSE LNeg(sub_ignore_sign(a, b))

\* mul_ignore_sign, the inner loop: one digit d of b times a, into c at offset i
RECURSIVE MulRow(_, _, _, _, _, _)
MulRow(a, d, i, j, carry, c) ==
    IF j >= Len(a.digits) THEN [c EXCEPT ![i + Len(a.digits) + 1] = carry % Base]
    ELSE LET mul == Get(a, j) * d + carry
         IN  MulRow(a, d, i, j + 1, mul \div Base, [c EXCEPT ![i + j + 1] = mul % Base])

\* mul_ignore_sign, the outer loop: res = &res + &c for each digit of b
RECURSIVE MulLoop(_, _, _, _)
MulLoop(a, b, i, res) ==
    IF i >= Len(b.digits) THEN res
    ELSE LET c == LI(MulRow(a, Get(b, i), i, 0, 0, Zeros(i + Len(a.digits) + 1)), TRUE)
         IN  MulLoop(a, b, i + 1, LAdd(res, c))

mul_ignore_sign(a, b) == trim(MulLoop(a, b, 0, FromI32(0)))

\* the product without its sign
LMulUnsigned(a, b) == mul_ignore_sign(a, b)

\* Mul for LongInt
LMul(a, b) ==
    IF a.positive /\ b.positive THEN mul_ignore_sign(a, b)
    ELSE IF a.positive /\ ~b.positive THEN LNeg(mul_ignore_sign(a, b))
    ELSE IF ~a.positive /\ b.positive THEN LNeg(mul_ignore_sign(a, b))
    ELSE mul_ignore_sign(a, b)

\* div_ignore_sign, the zero test: the divisor is compared with LongInt::from(0)
DivPanics(d) == LEq(d, FromI32(0))

\* div_ignore_sign, one pass of the bit loop: r and d are compared and
\* subtracted with the signed operators, as the code does
DivStep(n, d, i, q, r1) ==
    IF LGe(r1, d) THEN [q |-> set_bit(q, i, TRUE), r |-> LSub(r1, d)]
    ELSE [q |-> q, r |-> r1]

\* div_ignore_sign, the passes of the bit loop for the bits i down to stop
RECURSIVE DivBitsTo(_, _, _, _, _, _)
DivBitsTo(n, d, i, stop, q, r) ==
    IF i < stop THEN [q |-> q, r |-> r]
    ELSE Strict(DivStep(n, d, i, q, set_bit(bit_shift_left(r, 1), 0, get_bit(n, i))),
                LAMBDA s : DivBitsTo(n, d, i - 1, stop, s.q, s.r))

\* div_ignore_sign, the bit loop from the dividend's top bit down, taken one
\* digit of the dividend at a time
RECURSIVE DivLoop(_, _, _, _, _)
DivLoop(n, d, i, q, r) ==
    IF i < 0 THEN [q |-> q, r |-> r]
    ELSE Strict(DivBitsTo(n, d, i, (i \div 8) * 8, q, r),
                LAMBDA s : DivLoop(n, d, (i \div 8) * 8 - 1, s.q, s.r))

\* div_ignore_sign: (quotient, remainder), or the division-by-zero panic
div_ignore_sign(n, d) ==
    IF DivPanics(d) THEN [panic |-> TRUE, q |-> LongIntNew, r |-> LongIntNew]
    ELSE IF ord_ignore_sign(n, d) = "Less"
         THEN [panic |-> FALSE, q |-> FromI32(0), r |-> n]
         ELSE LET qr == DivLoop(n, d, actual_length(n) * 8 - 1, FromI32(0), FromI32(0))
              IN  [panic |-> FALSE, q |-> trim(qr.q), r |-> trim(qr.r)]

\* Div for LongInt (defined where div_ignore_sign does not panic)
LDiv(a, b) ==
    LET q == div_ignore_sign(a, b).q
    IN  IF a.positive /\ b.positive THEN q
        ELSE IF a.positive /\ ~b.positive THEN LNeg(q)
        ELSE IF ~a.positive /\ b.positive THEN LNeg(q)
        ELSE q

\* Rem for LongInt
LRem(a, b) == div_ignore_sign(a, b).r

\* the integer a LongInt represents
RECURSIVE Magnitude(_)
Magnitude(s) == IF s = <<>> THEN 0 ELSE s[1] + Base * Magnitude(Tail(s))

Value(a) == IF a.positive THEN Magnitude(a.digits) ELSE -Magnitude(a.digits)

(***************************************************************************)
(* LongInt arithmetic as a program: two registers x and y, constructed by  *)
(* LongInt::new or From<i32>, and one action per operator.  A binary       *)
(* operator computes x op y; a caller may keep the result in either        *)
(* register, so a computed value can become the right operand of the next  *)
(* operator.  A panic ends the run.                                        *)
(***************************************************************************)
\* the most operators one run applies
MaxOps == 2

\* the i32 values the registers are constructed from: both signs, zero,
\* magnitudes below and above 128 and of more than one base-256 digit
I32Inputs == {-300, -200, -1, 0, 1, 3, 200, 256}

LongIntInputs == {LongIntNew} \cup {FromI32(v) : v \in I32Inputs}

Regs == {"x", "y"}

\* the state the other components' variables rest in while LongInt runs
IdleEngines ==
    /\ pc = "init" /\ ty = "LongInt" /\ mat = <<>> /\ method = "none" /\ reortho_epsilon = <<1, 0, 0>> /\ out = <<>>

InitLongInt ==
    /\ IdleEngines
    /\ x \in LongIntInputs
    /\ y \in LongIntInputs
    /\ a0 = x
    /\ b0 = y
    /\ hist = <<>>
    /\ st = "ok"

CanStep == st = "ok" /\ Len(hist) < MaxOps

\* the result v of an operator stored in register dst
Store(op, dst, v) ==
    /\ x' = IF dst = "x" THEN v ELSE x
    /\ y' = IF dst = "y" THEN v ELSE y
    /\ hist' = Append(hist, <<op, dst>>)
    /\ UNCHANGED <<pc, ty, mat, method, reortho_epsilon, out, a0, b0, st>>

\* the process aborted inside operator op
Panic(op, dst) ==
    /\ st' = "panic"
    /\ hist' = Append(hist, <<op, dst>>)
    /\ UNCHANGED <<pc, ty, mat, method, reortho_epsilon, out, x, y, a0, b0>>

LongIntAdd == CanStep /\ \E dst \in Regs : Store("add", dst, LAdd(x, y))

LongIntSub == CanStep /\ \E dst \in Regs : Store("sub", dst, LSub(x, y))

LongIntMul == CanStep /\ \E dst \in Regs : Store("mul", dst, LMul(x, y))

LongIntDiv ==
    /\ CanStep
    /\ \E dst \in Regs :
          IF div_ignore_sign(x, y).panic THEN Panic("div", dst)
          ELSE Store("div", dst, LDiv(x, y))

LongIntRem ==
    /\ CanStep
    /\ \E dst \in Regs :
          IF div_ignore_sign(x, y).panic THEN Panic("rem", dst)
          ELSE Store("rem", dst, LRem(x, y))

LongIntNeg ==
    CanStep /\ \E dst \in Regs : Store("neg", dst, LNeg(IF dst = "x" THEN x ELSE y))

LongIntAbs ==
    CanStep /\ \E dst \in Regs : Store("abs", dst, LAbs(IF dst = "x" THEN x ELSE y))

\* the digit positions and digits set is called with: a position inside the
\* four digits of From<i32>, and one beyond them
SetPositions == {0, 1, 5}

SetDigits == {0, 7, 255}

\* x.set(ind, d) or y.set(ind, d)
LongIntSet ==
    /\ CanStep
    /\ \E dst \in Regs, ind \in SetPositions, d \in SetDigits :
          Store("set", dst, Set(IF dst = "x" THEN x ELSE y, ind, d))

NextLongInt ==
    \/ LongIntSet
    \/ LongIntAdd
    \/ LongIntSub
    \/ LongIntMul
    \/ LongIntDiv
    \/ LongIntRem
    \/ LongIntNeg
    \/ LongIntAbs

SpecLongInt == InitLongInt /\ [][NextLongInt]_vars

(***************************************************************************)
(* Claims about LongInt, checked under SpecLongInt                         *)
(***************************************************************************)
\* the last operator applied, and the register its result went to
LastOp == hist[Len(hist)]

\* x holds (a0 op1 b0) op2 b0
RoundTrip(op1, op2) == hist = <<<<op1, "x">>, <<op2, "x">>>>

\* a canonical LongInt: no most-significant zero digit, and zero is the empty
\* digit sequence with the positive sign
Canonical(a) ==
    /\ a.digits # <<>> => a.digits[Len(a.digits)] # 0
    /\ a.digits = <<>> => a.positive

\* C7: for all non-zero a, b built by LongInt::from(i32), (a + b) - b == a
\* under LongInt's own equality.
C7_AddSubRoundTrip ==
    (RoundTrip("add", "sub") /\ Value(a0) # 0 /\ Value(b0) # 0)
        => (st = "ok" /\ LEq(x, a0))

\* C8: for all non-zero a, b built by LongInt::from(i32), of any signs,
\* (a * b) / b == a under LongInt's own equality.
C8_MulDivRoundTrip ==
    (RoundTrip("mul", "div") /\ Value(a0) # 0 /\ Value(b0) # 0)
        => (st = "ok" /\ LEq(x, a0))

\* C9: every LongInt a constructor or an operator produces is canonical.
C9_AlwaysCanonical == Canonical(x) /\ Canonical(y)

\* C10: / and % by a LongInt whose value is zero, however the zero was
\* produced, abort with the division-by-zero panic and return nothing.
C10_DivByZeroPanics ==
    (/\ hist # <<>>
     /\ LastOp[1] \in {"div", "rem"}
     /\ (st = "panic" \/ LastOp[2] = "x")
     /\ \A k \in 1..Len(y.digits) : y.digits[k] = 0)
        => st = "panic"

(***************************************************************************)
(* f32: the IEEE 754 binary32 scalars of the code, held as triples         *)
(* <<sign, mant, exp>>.  A finite non-zero value is sign * mant * 2^exp    *)
(* with sign in {1, -1} and mant odd, 0 < mant < 2^24, so that every f32   *)
(* has one triple; the zeros are <<1, 0, 0>> (+0.0) and <<-1, 0, 0>>       *)
(* (-0.0), the infinities <<1, 1, 128>> and <<-1, 1, 128>>, and NaN is     *)
(* <<1, 0, 128>> (the sign and payload of a NaN are not modelled).  Every  *)
(* operation rounds to the nearest f32, ties to even, as the hardware      *)
(* does: 24 bits of mantissa, the subnormal grid 2^-149 below 2^-126,      *)
(* overflow to infinity from 2^128.                                        *)
(***************************************************************************)
Sgn(n) == IF n > 0 THEN 1 ELSE IF n < 0 THEN -1 ELSE 0

\* the powers of two a 32-bit integer holds
TwoTo == [k \in 0..30 |-> Pow(2, k)]

\* the number of bits of n >= 0
RECURSIVE BitLen(_)
BitLen(n) == IF n = 0 THEN 0 ELSE 1 + BitLen(n \div 2)

\* the number of zero bits at the low end of n > 0
RECURSIVE TrailingZeros(_)
TrailingZeros(n) == IF n % 2 = 1 THEN 0 ELSE 1 + TrailingZeros(n \div 2)

FZero(s) == <<s, 0, 0>>

FInf(s) == <<s, 1, 128>>

NaN == <<1, 0, 128>>

IsNaN(a) == a[2] = 0 /\ a[3] = 128

IsInf(a) == a[2] = 1 /\ a[3] = 128

IsFinite(a) == a[3] < 128

IsZero(a) == a[2] = 0 /\ a[3] = 0

\* the f32 s * m * 2^e for 0 <= m <= 2^24 that needs no rounding: the
\* triple with an odd mantissa, or the infinity once 2^128 is reached
Pack(s, m, e) ==
    IF m = 0 THEN FZero(s)
    ELSE LET z == TrailingZeros(m)
         IN  IF BitLen(m) + e > 128 THEN FInf(s)
             ELSE <<s, m \div TwoTo[z], e + z>>

\* round to nearest, ties to even: the f32 nearest to s * (S + t) * 2^e,
\* where 0 <= S < 2^31 has len bits and the tail t is 0, or lies strictly
\* between 0 and 1 when sticky holds
RoundBits(s, S, e, sticky, len) ==
    LET drop == Max(len - 24, (-149) - e)
    IN  IF drop <= 0 THEN Pack(s, S, e)
        ELSE IF drop > len THEN FZero(s)
        ELSE LET q    == S \div TwoTo[drop]
                 r    == S % TwoTo[drop]
                 half == TwoTo[drop - 1]
                 up   == r > half \/ (r = half /\ (sticky \/ q % 2 = 1))
             IN  Pack(s, q + (IF up THEN 1 ELSE 0), e + drop)

Round(s, S, e, sticky) ==
    Strict(<<S, e, sticky>>, LAMBDA t : RoundBits(s, t[1], t[2], t[3], BitLen(t[1])))

\* an i32 as f32; an integer literal of the source
R(n) == Round(IF n < 0 THEN -1 ELSE 1, Abs(n), 0, FALSE)

\* the mantissa of a finite non-zero f32 scaled into 2^23 .. 2^24 - 1, and
\* the exponent that goes with it
NormMant(a) == a[2] * TwoTo[24 - BitLen(a[2])]

NormExp(a) == a[3] - (24 - BitLen(a[2]))

\* f32 negation
RNeg(a) == IF IsNaN(a) THEN a ELSE <<-a[1], a[2], a[3]>>

\* f32::abs
RAbs(a) == IF IsNaN(a) THEN a ELSE <<1, a[2], a[3]>>

\* the sum of two finite non-zero f32 given as sign, 2^23-scaled mantissa
\* and exponent, eh >= el: three guard bits below the larger operand, the
\* smaller one shifted under it with its lost bits kept as the sticky tail
AddAligned(sh, mh, eh, sl, ml, el) ==
    LET d      == eh - el
        A      == mh * 8
        B      == IF d > 30 THEN 0 ELSE (ml * 8) \div TwoTo[d]
        sticky == IF d > 30 THEN TRUE ELSE (ml * 8) % TwoTo[d] # 0
        diff   == IF sh = sl THEN <<sh, A + B, sticky>>
                  ELSE IF sticky THEN <<sh, A - B - 1, TRUE>>
                  ELSE IF A > B THEN <<sh, A - B, FALSE>>
                  ELSE <<sl, B - A, FALSE>>
    IN  IF sh # sl /\ ~sticky /\ A = B THEN FZero(1)
        ELSE Round(diff[1], diff[2], eh - 3, diff[3])

AddFinite(a, b) ==
    Strict(IF NormExp(a) >= NormExp(b) THEN <<a, b>> ELSE <<b, a>>, LAMBDA t :
        AddAligned(t[1][1], NormMant(t[1]), NormExp(t[1]),
                   t[2][1], NormMant(t[2]), NormExp(t[2])))

\* f32 addition
RAdd(a, b) ==
    IF IsNaN(a) \/ IsNaN(b) THEN NaN
    ELSE IF IsInf(a) THEN (IF IsInf(b) /\ a[1] # b[1] THEN NaN ELSE a)
    ELSE IF IsInf(b) THEN b
    ELSE IF IsZero(a) THEN (IF IsZero(b) /\ a[1] # b[1] THEN FZero(1) ELSE b)
    ELSE IF IsZero(b) THEN a
    ELSE AddFinite(a, b)

\* f32 subtraction
RSub(a, b) == RAdd(a, RNeg(b))

\* the product of two mantissas below 2^24 as <<hi, lo>>, hi * 2^24 + lo,
\* from their 12-bit halves
MulWide(m1, m2) ==
    LET ah  == m1 \div 4096
        al  == m1 % 4096
        bh  == m2 \div 4096
        bl  == m2 % 4096
        mid == ah * bl + al * bh
        low == (mid % 4096) * 4096 + al * bl
    IN  <<ah * bh + mid \div 4096 + low \div 16777216, low % 16777216>>

MulFinite(a, b) ==
    Strict(MulWide(a[2], b[2]), LAMBDA p :
        IF p[1] = 0 THEN Round(a[1] * b[1], p[2], a[3] + b[3], FALSE)
        ELSE LET k == Max(0, BitLen(p[1]) - 3)
             IN  Round(a[1] * b[1], p[1] * TwoTo[24 - k] + p[2] \div TwoTo[k],
                       a[3] + b[3] + k, p[2] % TwoTo[k] # 0))

\* f32 multiplication
RMul(a, b) ==
    IF IsNaN(a) \/ IsNaN(b) THEN NaN
    ELSE IF IsInf(a) \/ IsInf(b)
         THEN (IF IsZero(a) \/ IsZero(b) THEN NaN ELSE FInf(a[1] * b[1]))
    ELSE IF IsZero(a) \/ IsZero(b) THEN FZero(a[1] * b[1])
    ELSE MulFinite(a, b)

\* seven more quotient bits of a long division by m: <<quotient, remainder>>
\* extended from qr, remainder below m < 2^24
DivStep7(qr, m) == <<qr[1] * 128 + (qr[2] * 128) \div m, (qr[2] * 128) % m>>

\* the quotient of two 2^23-scaled mantissas to 28 fraction bits, the
\* remainder as the sticky tail
DivFinite(a, b) ==
    Strict(<<NormMant(a), NormMant(b)>>, LAMBDA t :
        Strict(DivStep7(DivStep7(<<t[1] \div t[2], t[1] % t[2]>>, t[2]), t[2]), LAMBDA h :
            Strict(DivStep7(DivStep7(h, t[2]), t[2]), LAMBDA qr :
                Round(a[1] * b[1], qr[1], NormExp(a) - NormExp(b) - 28, qr[2] # 0))))

\* f32 division
RDiv(a, b) ==
    IF IsNaN(a) \/ IsNaN(b) THEN NaN
    ELSE IF IsInf(a) THEN (IF IsInf(b) THEN NaN ELSE FInf(a[1] * b[1]))
    ELSE IF IsInf(b) THEN FZero(a[1] * b[1])
    ELSE IF IsZero(b) THEN (IF IsZero(a) THEN NaN ELSE FInf(a[1] * b[1]))
    ELSE IF IsZero(a) THEN FZero(a[1] * b[1])
    ELSE DivFinite(a, b)

\* a decimal literal n/d of the source: the f32 nearest to it
F32Lit(n, d) == RDiv(R(n), R(d))

\* f32 ==: NaN equals nothing, the two zeros are equal
REq(a, b) == ~IsNaN(a) /\ ~IsNaN(b) /\ (a = b \/ (IsZero(a) /\ IsZero(b)))

\* |a| < |b| for finite non-zero a, b
MagLt(a, b) ==
    \/ NormExp(a) < NormExp(b)
    \/ NormExp(a) = NormExp(b) /\ NormMant(a) < NormMant(b)

\* f32 <
RLt(a, b) ==
    IF IsNaN(a) \/ IsNaN(b) \/ REq(a, b) THEN FALSE
    ELSE IF IsZero(a) THEN b[1] = 1
    ELSE IF IsZero(b) THEN a[1] = -1
    ELSE IF a[1] # b[1] THEN a[1] = -1
    ELSE IF IsInf(a) THEN a[1] = -1
    ELSE IF IsInf(b) THEN b[1] = 1
    ELSE IF a[1] = 1 THEN MagLt(a, b) ELSE MagLt(b, a)

\* the greatest k in lo..hi with k * k <= n
RECURSIVE IsqrtFrom(_, _, _)
IsqrtFrom(n, lo, hi) ==
    IF lo >= hi THEN lo
    ELSE LET mid == (lo + hi + 1) \div 2
         IN  IF mid * mid <= n THEN IsqrtFrom(n, mid, hi) ELSE IsqrtFrom(n, lo, mid - 1)

\* the integer root of 0 <= n < 2^25
Isqrt(n) == IsqrtFrom(n, 0, 5792)

\* steps more bits of a binary square root, one per step: <<root, remainder>>
\* extended by a pair of zero bits of the radicand
RECURSIVE SqrtSteps(_, _)
SqrtSteps(rr, steps) ==
    IF steps = 0 THEN rr
    ELSE IF 4 * rr[2] >= 4 * rr[1] + 1
         THEN SqrtSteps(<<2 * rr[1] + 1, 4 * rr[2] - (4 * rr[1] + 1)>>, steps - 1)
         ELSE SqrtSteps(<<2 * rr[1], 4 * rr[2]>>, steps - 1)

\* the root of a finite positive f32: the mantissa is scaled to an even
\* exponent, its integer root extended by 14 bits, the remainder kept as
\* the sticky tail
SqrtFinite(a) ==
    Strict(<<NormMant(a), NormExp(a)>>, LAMBDA t :
        Strict(IF t[2] % 2 = 0 THEN t ELSE <<2 * t[1], t[2] - 1>>, LAMBDA u :
            Strict(Isqrt(u[1]), LAMBDA r0 :
                Strict(SqrtSteps(<<r0, u[1] - r0 * r0>>, 14), LAMBDA rr :
                    Round(1, rr[1], (u[2] - 28) \div 2, rr[2] # 0)))))

\* f32::sqrt
RSqrt(a) ==
    IF IsNaN(a) THEN NaN
    ELSE IF IsZero(a) THEN a
    ELSE IF a[1] = -1 THEN NaN
    ELSE IF IsInf(a) THEN a
    ELSE SqrtFinite(a)

\* r * 2^k modulo m, for r < m < 2^24
RECURSIVE ModShift(_, _, _)
ModShift(r, k, m) ==
    IF k >= 7 THEN ModShift((r * 128) % m, k - 7, m)
    ELSE (r * TwoTo[k]) % m

\* the remainder of two finite non-zero f32: exact, with the sign of a
RemFinite(a, b) ==
    IF a[3] >= b[3] THEN Pack(a[1], ModShift(a[2] % b[2], a[3] - b[3], b[2]), b[3])
    ELSE IF BitLen(b[2]) + (b[3] - a[3]) > BitLen(a[2]) THEN a
    ELSE Pack(a[1], a[2] % (b[2] * TwoTo[b[3] - a[3]]), a[3])

\* f32 %
RRem(a, b) ==
    IF IsNaN(a) \/ IsNaN(b) \/ IsInf(a) \/ IsZero(b) THEN NaN
    ELSE IF IsInf(b) \/ IsZero(a) THEN a
    ELSE RemFinite(a, b)

\* f32 as i32: truncation toward zero, saturating at the ends of i32, NaN
\* gives 0
RToI32(a) ==
    IF IsNaN(a) \/ IsZero(a) THEN 0
    ELSE IF IsInf(a) \/ BitLen(a[2]) + a[3] > 31
         THEN (IF a[1] = 1 THEN 2147483647 ELSE (-2147483647) - 1)
    ELSE IF a[3] >= 0 THEN a[1] * a[2] * TwoTo[a[3]]
    ELSE IF a[3] <= -24 THEN 0
    ELSE a[1] * (a[2] \div TwoTo[-a[3]])

(***************************************************************************)
(* Complex: src/src/complex.rs                                             *)
(***************************************************************************)
Cx(re, im) == [re |-> re, im |-> im]

\* Complex::conjugate
CConj(a) == Cx(a.re, RNeg(a.im))

\* Complex::abs_squared
CAbsSq(a) == RAdd(RMul(a.re, a.re), RMul(a.im, a.im))

CAdd(a, b) == Cx(RAdd(a.re, b.re), RAdd(a.im, b.im))

CSub(a, b) == Cx(RSub(a.re, b.re), RSub(a.im, b.im))

CMul(a, b) ==
    Cx(RSub(RMul(a.re, b.re), RMul(a.im, b.im)),
       RAdd(RMul(a.re, b.im), RMul(a.im, b.re)))

\* Div: multiply by the conjugate, divide by the squared magnitude
CDiv(a, b) ==
    LET mul == CMul(a, CConj(b))
        abs == CAbsSq(b)
    IN  Cx(RDiv(mul.re, abs), RDiv(mul.im, abs))

CNeg(a) == Cx(RNeg(a.re), RNeg(a.im))

\* derived PartialEq
CEq(a, b) == REq(a.re, b.re) /\ REq(a.im, b.im)

(***************************************************************************)
(* The numeric contract NumNonRef / NumRef: src/src/number.rs.  T is the   *)
(* tag of the type the generic code is instantiated with.                  *)
(***************************************************************************)
\* From<f32>
NFrom(T, r) ==
    IF T = "f32" THEN r
    ELSE IF T = "Complex" THEN Cx(r, R(0))
    ELSE FromI32(RToI32(r))

NAdd(T, a, b) ==
    IF T = "f32" THEN RAdd(a, b) ELSE IF T = "Complex" THEN CAdd(a, b) ELSE LAdd(a, b)

NSub(T, a, b) ==
    IF T = "f32" THEN RSub(a, b) ELSE IF T = "Complex" THEN CSub(a, b) ELSE LSub(a, b)

NMul(T, a, b) ==
    IF T = "f32" THEN RMul(a, b) ELSE IF T = "Complex" THEN CMul(a, b) ELSE LMul(a, b)

NDiv(T, a, b) ==
    IF T = "f32" THEN RDiv(a, b) ELSE IF T = "Complex" THEN CDiv(a, b) ELSE LDiv(a, b)

\* whether a / b aborts: LongInt division by a divisor equal to LongInt::from(0);
\* f32 and Complex division by zero returns an infinity or NaN
NDivPanics(T, b) == T = "LongInt" /\ DivPanics(b)

NNeg(T, a) ==
    IF T = "f32" THEN RNeg(a) ELSE IF T = "Complex" THEN CNeg(a) ELSE LNeg(a)

NEq(T, a, b) ==
    IF T = "f32" THEN REq(a, b) ELSE IF T = "Complex" THEN CEq(a, b) ELSE LEq(a, b)

\* u32::from_le_bytes(..) as f32: the u32 of four digits rounded to f32; from
\* 2^31 on the value is halved to stay within 32-bit integers, the lost bit
\* kept as the sticky tail
U32ToF32(d0, d1, d2, d3) ==
    LET low == d0 + Base * d1 + Base * Base * d2
    IN  IF d3 < 128 THEN R(low + 16777216 * d3)
        ELSE Round(1, 8388608 * d3 + low \div 2, 1, low % 2 = 1)

\* NumNonRef::norm_squared, an f32; for LongInt the low four digits as a u32
NNormSq(T, a) ==
    IF T = "f32" THEN RMul(a, a)
    ELSE IF T = "Complex" THEN CAbsSq(a)
    ELSE U32ToF32(Get(a, 0), Get(a, 1), Get(a, 2), Get(a, 3))

\* NumNonRef::norm
NNorm(T, a) == RSqrt(NNormSq(T, a))

\* NumNonRef::conjugate
NConj(T, a) == IF T = "Complex" THEN CConj(a) ELSE a

\* whether the value a represents is zero
IsZeroValue(T, a) ==
    IF T = "f32" THEN IsZero(a)
    ELSE IF T = "Complex" THEN IsZero(a.re) /\ IsZero(a.im)
    ELSE \A k \in 1..Len(a.digits) : a.digits[k] = 0

(***************************************************************************)
(* Results: Ok(value), Err(MatrixError), or the process aborting           *)
(***************************************************************************)
Ok(v) == [tag |-> "Ok", val |-> v]

Err(e) == [tag |-> "Err", err |-> e]

Aborted == [tag |-> "Panic"]

(***************************************************************************)
(* Matrix: src/src/matrix.rs.  elems is row-major.                         *)
(***************************************************************************)
Mat(e, w, h) == [elems |-> e, width |-> w, height |-> h]

\* Matrix::new
MatrixNew(T, w, h) == Mat([k \in 1..(w * h) |-> NFrom(T, R(0))], w, h)

\* Matrix::from_vec: elems.len() % width aborts for width 0
from_vec(e, w) ==
    IF w = 0 THEN Aborted
    ELSE IF Len(e) % w # 0 THEN Err("SizeMismatch")
    ELSE Ok(Mat(e, w, Len(e) \div w))

\* Matrix::identity
identity(T, w) ==
    Mat([k \in 1..(w * w) |->
            IF (k - 1) \div w = (k - 1) % w THEN NFrom(T, R(1)) ELSE NFrom(T, R(0))],
        w, w)

\* Matrix::get
MGet(m, row, col) == m.elems[row * m.width + col + 1]

\* Matrix::set
MSet(m, row, col, v) == [m EXCEPT !.elems[row * m.width + col + 1] = v]

\* Matrix::transpose: a[j * height + i] = self[i][j], then from_vec(a, height).unwrap()
transpose(T, m) ==
    LET a == [k \in 1..(m.width * m.height) |->
                 MGet(m, (k - 1) % m.height, (k - 1) \div m.height)]
        r == from_vec(a, m.height)
    IN  IF r.tag = "Ok" THEN r ELSE Aborted

\* Matrix::hermetian_transpose
hermetian_transpose(T, m) ==
    LET a == [k \in 1..(m.width * m.height) |->
                 NConj(T, MGet(m, (k - 1) % m.height, (k - 1) \div m.height))]
        r == from_vec(a, m.height)
    IN  IF r.tag = "Ok" THEN r ELSE Aborted

\* Mul for Matrix, the k loop: c[i][j] = c[i][j] + a[i][k] * b[k][j]
RECURSIVE DotFrom(_, _, _, _, _, _, _)
DotFrom(T, a, b, i, j, k, acc) ==
    IF k >= a.width THEN acc
    ELSE DotFrom(T, a, b, i, j, k + 1, NAdd(T, acc, NMul(T, MGet(a, i, k), MGet(b, k, j))))

\* Mul for Matrix
MatMul(T, a, b) ==
    IF a.width # b.height THEN Err("SizeMismatch")
    ELSE from_vec([n \in 1..(b.width * a.height) |->
                      DotFrom(T, a, b, (n - 1) \div b.width, (n - 1) % b.width, 0,
                              NFrom(T, R(0)))],
                  b.width)

\* Add for Matrix; the four impls for owned and borrowed operands have the
\* same body
MatAdd(T, a, b) ==
    IF a.width # b.width \/ a.height # b.height THEN Err("SizeMismatch")
    ELSE from_vec([i \in 1..(a.width * a.height) |-> NAdd(T, a.elems[i], b.elems[i])],
                  a.width)

MatSubAdds(T, a, b) ==
    IF a.width # b.width \/ a.height # b.height THEN Err("SizeMismatch")
    ELSE from_vec([i \in 1..(a.width * a.height) |-> NAdd(T, a.elems[i], b.elems[i])],
                  a.width)

\* Sub for Matrix
MatSub(T, a, b) ==
    IF a.width # b.width \/ a.height # b.height THEN Err("SizeMismatch")
    ELSE from_vec([i \in 1..(a.width * a.height) |-> NSub(T, a.elems[i], b.elems[i])],
                  a.width)

(***************************************************************************)
(* Unrounded operations.  The predicates below tell whether an f32 or      *)
(* Complex operation returned the exact result, so that a claim made for   *)
(* exact arithmetic can be stated for the runs in which nothing is         *)
(* rounded.                                                                *)
(***************************************************************************)
\* p is the product of a and b as real numbers, none of them infinite or NaN
ExactProduct(p, a, b) ==
    /\ IsFinite(p) /\ IsFinite(a) /\ IsFinite(b)
    /\ IF IsZero(a) \/ IsZero(b) THEN IsZero(p)
       ELSE /\ ~IsZero(p)
            /\ p[1] = a[1] * b[1]
            /\ p[3] = a[3] + b[3]
            /\ MulWide(a[2], b[2]) = <<0, p[2]>>

\* the f32 product, quotient, difference and sum of a and b were not rounded.
\* For the difference this is the test of the error term of Dekker's fast
\* two-sum: with s the rounded difference, the smaller operand is recovered
\* from s and the larger one exactly when s was not rounded.
MulExact(a, b) == ExactProduct(RMul(a, b), a, b)

DivExact(a, b) == ~IsZero(b) /\ ExactProduct(a, RDiv(a, b), b)

SubExact(a, b) ==
    LET s == RSub(a, b)
    IN  /\ IsFinite(a) /\ IsFinite(b) /\ IsFinite(s)
        /\ IF MagLt(a, b) THEN REq(RAdd(s, b), a) ELSE REq(RSub(a, s), b)

AddExact(a, b) == SubExact(a, RNeg(b))

\* the same for Complex, over the f32 operations each operator is made of
CMulExact(a, b) ==
    /\ MulExact(a.re, b.re) /\ MulExact(a.im, b.im)
    /\ MulExact(a.re, b.im) /\ MulExact(a.im, b.re)
    /\ SubExact(RMul(a.re, b.re), RMul(a.im, b.im))
    /\ AddExact(RMul(a.re, b.im), RMul(a.im, b.re))

CDivExact(a, b) ==
    /\ CMulExact(a, CConj(b))
    /\ MulExact(b.re, b.re) /\ MulExact(b.im, b.im)
    /\ AddExact(RMul(b.re, b.re), RMul(b.im, b.im))
    /\ DivExact(CMul(a, CConj(b)).re, CAbsSq(b))
    /\ DivExact(CMul(a, CConj(b)).im, CAbsSq(b))

\* the same for the types f32 and Complex of the numeric contract
NAddExact(T, a, b) ==
    IF T = "f32" THEN AddExact(a, b) ELSE AddExact(a.re, b.re) /\ AddExact(a.im, b.im)

NSubExact(T, a, b) ==
    IF T = "f32" THEN SubExact(a, b) ELSE SubExact(a.re, b.re) /\ SubExact(a.im, b.im)

NMulExact(T, a, b) == IF T = "f32" THEN MulExact(a, b) ELSE CMulExact(a, b)

NDivExact(T, a, b) == IF T = "f32" THEN DivExact(a, b) ELSE CDivExact(a, b)

\* no operation of the dot product DotFrom accumulates was rounded
RECURSIVE DotExactFrom(_, _, _, _, _, _, _)
DotExactFrom(T, a, b, i, j, k, acc) ==
    \/ k >= a.width
    \/ /\ NMulExact(T, MGet(a, i, k), MGet(b, k, j))
       /\ NAddExact(T, acc, NMul(T, MGet(a, i, k), MGet(b, k, j)))
       /\ DotExactFrom(T, a, b, i, j, k + 1,
                       NAdd(T, acc, NMul(T, MGet(a, i, k), MGet(b, k, j))))

\* no operation of the product a * b was rounded
MatMulExact(T, a, b) ==
    \A i \in 0..(a.height - 1), j \in 0..(b.width - 1) :
        DotExactFrom(T, a, b, i, j, 0, NFrom(T, R(0)))

(***************************************************************************)
(* LU factorisation: src/src/lu.rs                                         *)
(***************************************************************************)
\* LuLayer with the elimination step's division by the pivot left out:
\* d[i][j] = d[i][j] - d[layer][j] * d[i][layer]
LuLayerNoDiv(T, width, layer, s) ==
    LET a      == s.d[layer * width + layer + 1]
        row(k) == (k - 1) \div width
        col(k) == (k - 1) % width
    IN  [l |-> [k \in 1..(width * width) |->
                  IF row(k) = layer /\ col(k) = layer THEN NFrom(T, R(1))
                  ELSE IF col(k) = layer /\ row(k) > layer THEN NDiv(T, s.d[k], a)
                  ELSE s.l[k]],
         u |-> [k \in 1..(width * width) |->
                  IF row(k) = layer /\ col(k) = layer THEN a
                  ELSE IF row(k) = layer /\ col(k) > layer THEN s.d[k]
                  ELSE s.u[k]],
         d |-> [k \in 1..(width * width) |->
                  IF row(k) > layer /\ col(k) > layer
                  THEN NSub(T, s.d[k],
                            NMul(T, s.d[layer * width + col(k) + 1],
                                    s.d[row(k) * width + layer + 1]))
                  ELSE s.d[k]]]

\* one layer of lu_decomposition.  The loops over i and j read only row
\* `layer` and column `layer` of d, which they do not write, so each cell is
\* given by its own expression.
LuLayer(T, width, layer, s) ==
    LET a      == s.d[layer * width + layer + 1]
        row(k) == (k - 1) \div width
        col(k) == (k - 1) % width
    IN  [l |-> [k \in 1..(width * width) |->
                  IF row(k) = layer /\ col(k) = layer THEN NFrom(T, R(1))
                  ELSE IF col(k) = layer /\ row(k) > layer THEN NDiv(T, s.d[k], a)
                  ELSE s.l[k]],
         u |-> [k \in 1..(width * width) |->
                  IF row(k) = layer /\ col(k) = layer THEN a
                  ELSE IF row(k) = layer /\ col(k) > layer THEN s.d[k]
                  ELSE s.u[k]],
         d |-> [k \in 1..(width * width) |->
                  IF row(k) > layer /\ col(k) > layer
                  THEN NSub(T, s.d[k],
                            NDiv(T, NMul(T, s.d[layer * width + col(k) + 1],
                                            s.d[row(k) * width + layer + 1]), a))
                  ELSE s.d[k]]]

\* the pivot test of lu_decomposition: a == 0.0.into()
PivotIsZero(T, a) == NEq(T, a, NFrom(T, R(0)))

\* the layer loop; pivots records the pivot read at each layer entered
RECURSIVE LuFrom(_, _, _, _, _)
LuFrom(T, width, layer, s, pivots) ==
    IF layer >= width
    THEN LET l == from_vec(s.l, width)
             u == from_vec(s.u, width)
         IN  [pivots |-> pivots,
              res |-> IF l.tag # "Ok" THEN l
                      ELSE IF u.tag # "Ok" THEN u
                      ELSE Ok([l |-> l.val, u |-> u.val])]
    ELSE LET a == s.d[layer * width + layer + 1]
         IN  IF PivotIsZero(T, a)
             THEN [pivots |-> Append(pivots, a), res |-> Err("NotRegular")]
             ELSE LuFrom(T, width, layer + 1, LuLayer(T, width, layer, s),
                         Append(pivots, a))

\* lu_decomposition with the first pivot tested before the shape
LuRunPivotFirst(T, m) ==
    IF Len(m.elems) > 0 /\ PivotIsZero(T, m.elems[1])
    THEN [pivots |-> <<m.elems[1]>>, res |-> Err("NotRegular")]
    ELSE IF m.width # m.height THEN [pivots |-> <<>>, res |-> Err("NotSquare")]
    ELSE LET z == [k \in 1..(m.width * m.width) |-> NFrom(T, R(0))]
         IN  LuFrom(T, m.width, 0, [l |-> z, u |-> z, d |-> m.elems], <<>>)

LuRun(T, m) ==
    IF m.width # m.height THEN [pivots |-> <<>>, res |-> Err("NotSquare")]
    ELSE LET z == [k \in 1..(m.width * m.width) |-> NFrom(T, R(0))]
         IN  LuFrom(T, m.width, 0, [l |-> z, u |-> z, d |-> m.elems], <<>>)

\* lu_decomposition
lu_decomposition(T, m) == LuRun(T, m).res

(***************************************************************************)
(* Input matrices, as the file reader hands them over: integer-valued f32  *)
(* matrices, Complex matrices built from two of them, and LongInt matrices *)
(* converted by from_f32_mat.  The larger the shape, the smaller the set   *)
(* its entries are drawn from.                                             *)
(***************************************************************************)
\* the largest width and height of an input matrix
MaxDim == 3

F32Values(cells) ==
    IF cells <= 4 THEN {-2, -1, 0, 1, 2, 3, 4, 6}
    ELSE IF cells <= 9 THEN {-1, 0, 2}
    ELSE {1, 2}

SmallValues(cells) == IF cells <= 4 THEN {-1, 0, 1, 2} ELSE {1, 2}

ComplexValues(cells) ==
    IF cells <= 4 THEN {<<0, 0>>, <<1, 0>>, <<0, 1>>, <<1, 1>>, <<-1, 2>>}
    ELSE {<<1, 0>>, <<0, 1>>}

\* the entries a matrix of the given number of cells is filled from
Entries(T, cells) ==
    IF T = "f32" THEN {R(v) : v \in F32Values(cells)}
    ELSE IF T = "Complex" THEN {Cx(R(c[1]), R(c[2])) : c \in ComplexValues(cells)}
    ELSE {FromI32(v) : v \in SmallValues(cells)}

\* the matrices of one shape
Matrices(T, w, h) == {Mat(e, w, h) : e \in [1..(w * h) -> Entries(T, w * h)]}

\* the shapes a type is run on: f32 up to MaxDim, the costlier types one less
Dims(T) == IF T = "f32" THEN 0..MaxDim ELSE 0..(MaxDim - 1)

InputMatrices(T) == UNION {Matrices(T, w, h) : w \in Dims(T), h \in Dims(T)}

NumTypes == {"f32", "Complex", "LongInt"}

\* the state the LongInt registers rest in while an engine runs
IdleLongInt ==
    /\ x = LongIntNew /\ y = LongIntNew /\ a0 = LongIntNew /\ b0 = LongIntNew
    /\ hist = <<>> /\ st = "ok"

InitLU ==
    /\ pc = "init"
    /\ ty \in NumTypes
    /\ mat \in InputMatrices(ty)
    /\ method = "none"
    /\ reortho_epsilon = <<1, 0, 0>>
    /\ out = <<>>
    /\ IdleLongInt

\* a call of lu_decomposition(&mat)
LuDecomposition ==
    /\ pc = "init"
    /\ pc' = "lu_decomposition"
    /\ out' = lu_decomposition(ty, mat)
    /\ UNCHANGED <<ty, mat, method, reortho_epsilon, x, y, a0, b0, hist, st>>

NextLU == LuDecomposition

SpecLU == InitLU /\ [][NextLU]_vars

(***************************************************************************)
(* Claims about LU, checked under SpecLU                                   *)
(***************************************************************************)
\* the determinant of the rows r.. and the columns cols of an integer-valued
\* f32 matrix, by expansion along row r
RECURSIVE DetFrom(_, _, _), DetSum(_, _, _, _)
DetFrom(m, r, cols) ==
    IF cols = {} THEN 1 ELSE DetSum(m, r, cols, cols)

DetSum(m, r, cols, todo) ==
    IF todo = {} THEN 0
    ELSE LET c    == CHOOSE c \in todo : TRUE
             sign == IF Cardinality({c2 \in cols : c2 < c}) % 2 = 0 THEN 1 ELSE -1
         IN  sign * RToI32(MGet(m, r, c)) * DetFrom(m, r + 1, cols \ {c})
             + DetSum(m, r, cols, todo \ {c})

\* the leading principal minor of order k
LeadingMinor(m, k) ==
    DetFrom(Mat([n \in 1..(k * k) |-> MGet(m, (n - 1) \div k, (n - 1) % k)], k, k),
            0, 0..(k - 1))

Regular(m) ==
    /\ m.width = m.height
    /\ m.width >= 1
    /\ \A k \in 1..m.width : LeadingMinor(m, k) # 0

\* two matrices of one shape whose entries are equal under T's own ==
SameMatrix(T, m1, m2) ==
    /\ m1.width = m2.width
    /\ m1.height = m2.height
    /\ \A k \in 1..(m1.width * m1.height) : NEq(T, m1.elems[k], m2.elems[k])

UnitLower(T, m) ==
    \A i, j \in 0..(m.width - 1) :
        /\ i = j => NEq(T, MGet(m, i, j), NFrom(T, R(1)))
        /\ i < j => NEq(T, MGet(m, i, j), NFrom(T, R(0)))

Upper(T, m) ==
    \A i, j \in 0..(m.width - 1) : i > j => NEq(T, MGet(m, i, j), NFrom(T, R(0)))

\* no operation of the f32 elimination from layer `layer` on was rounded
RECURSIVE LuExactFrom(_, _, _)
LuExactFrom(width, layer, s) ==
    \/ layer >= width
    \/ LET a      == s.d[layer * width + layer + 1]
           row(k) == (k - 1) \div width
           col(k) == (k - 1) % width
           prod(k) == RMul(s.d[layer * width + col(k) + 1],
                           s.d[row(k) * width + layer + 1])
       IN  /\ ~IsZero(a)
           /\ \A k \in 1..(width * width) :
                 /\ (col(k) = layer /\ row(k) > layer) => DivExact(s.d[k], a)
                 /\ (col(k) > layer /\ row(k) > layer)
                      => /\ MulExact(s.d[layer * width + col(k) + 1],
                                     s.d[row(k) * width + layer + 1])
                         /\ DivExact(prod(k), a)
                         /\ SubExact(s.d[k], RDiv(prod(k), a))
           /\ LuExactFrom(width, layer + 1, LuLayer("f32", width, layer, s))

\* the f32 run of lu_decomposition on the square matrix m rounds nothing
LuExact(m) ==
    LuExactFrom(m.width, 0,
                [l |-> [k \in 1..(m.width * m.width) |-> R(0)],
                 u |-> [k \in 1..(m.width * m.width) |-> R(0)],
                 d |-> m.elems])

LuDone == pc = "lu_decomposition"

\* C1: for every square real matrix A whose leading principal minors are all
\* non-zero, lu_decomposition returns Ok((L, U)) with L unit lower triangular
\* and U upper triangular, and L * U = A whenever the arithmetic is exact,
\* that is whenever no f32 operation of the elimination and of the product
\* L * U is rounded.
C1_LuFactorises ==
    (LuDone /\ ty = "f32" /\ Regular(mat))
        => /\ out.tag = "Ok"
           /\ UnitLower(ty, out.val.l)
           /\ Upper(ty, out.val.u)
           /\ (LuExact(mat) /\ MatMulExact(ty, out.val.l, out.val.u))
                => LET lu == MatMul(ty, out.val.l, out.val.u)
                   IN  lu.tag = "Ok" /\ SameMatrix(ty, lu.val, mat)

\* C1, witness: [[4,3],[6,3]] was factored into L = [[1,0],[3/2,1]] and
\* U = [[4,3],[0,-3/2]]
C1_Witness ==
    /\ LuDone
    /\ ty = "f32"
    /\ mat = Mat(<<R(4), R(3), R(6), R(3)>>, 2, 2)
    /\ LuExact(mat)
    /\ out = Ok([l |-> Mat(<<R(1), R(0), RDiv(R(3), R(2)), R(1)>>, 2, 2),
                 u |-> Mat(<<R(4), R(3), R(0), RDiv(R(-3), R(2))>>, 2, 2)])
    /\ MatMulExact(ty, out.val.l, out.val.u)

\* C2: for every numeric type and every square matrix, lu_decomposition
\* returns Err(NotRegular) exactly when the pivot read at some layer has the
\* value zero, and Ok is never returned with a zero-valued pivot on U's
\* diagonal.
C2_NotRegularIffZeroPivot ==
    (LuDone /\ mat.width = mat.height)
        => LET pivots == LuRun(ty, mat).pivots
           IN  /\ out = Err("NotRegular")
                    <=> \E k \in 1..Len(pivots) : IsZeroValue(ty, pivots[k])
               /\ out.tag = "Ok"
                    => \A k \in 0..(mat.width - 1) :
                          ~IsZeroValue(ty, MGet(out.val.u, k, k))

(***************************************************************************)
(* Polynome: src/src/poly.rs.  coefs is ascending by degree.               *)
(***************************************************************************)
Poly(c) == [coefs |-> c]

\* Polynome::new
PolynomeNew == Poly(<<>>)

\* Polynome::from_coefs
from_coefs(c) == Poly(c)

\* Polynome::get: the additive identity past the stored length
PGet(T, p, power) ==
    IF power < Len(p.coefs) THEN p.coefs[power + 1] ELSE NFrom(T, R(0))

\* Polynome::set: in range the coefficient is overwritten; past the end the
\* vector grows only for a value that differs from 0.0.into()
PSet(T, p, power, val) ==
    IF Len(p.coefs) > power THEN Poly([p.coefs EXCEPT ![power + 1] = val])
    ELSE IF ~NEq(T, val, NFrom(T, R(0)))
         THEN Poly([k \in 1..(power + 1) |->
                      IF k <= Len(p.coefs) THEN p.coefs[k]
                      ELSE IF k = power + 1 THEN val
                      ELSE NFrom(T, R(0))])
         ELSE p

\* add_poly / sub_poly, the loop over 0..len
RECURSIVE AddPolyFrom(_, _, _, _, _, _), SubPolyFrom(_, _, _, _, _, _)
AddPolyFrom(T, a, b, i, len, res) ==
    IF i >= len THEN res
    ELSE AddPolyFrom(T, a, b, i + 1, len,
                     PSet(T, res, i, NAdd(T, PGet(T, a, i), PGet(T, b, i))))

SubPolyFrom(T, a, b, i, len, res) ==
    IF i >= len THEN res
    ELSE SubPolyFrom(T, a, b, i + 1, len,
                     PSet(T, res, i, NSub(T, PGet(T, a, i), PGet(T, b, i))))

add_poly(T, a, b) ==
    AddPolyFrom(T, a, b, 0, Max(Len(a.coefs), Len(b.coefs)), PolynomeNew)

sub_poly(T, a, b) ==
    SubPolyFrom(T, a, b, 0, Max(Len(a.coefs), Len(b.coefs)), PolynomeNew)

\* mul_poly: both index loops run from the highest coefficient down;
\* n counts the pairs done, i = la - 1 - n / lb, j = lb - 1 - n % lb
RECURSIVE MulPolyFrom(_, _, _, _, _)
MulPolyFrom(T, a, b, n, res) ==
    LET la == Len(a.coefs)
        lb == Len(b.coefs)
    IN  IF n >= la * lb THEN res
        ELSE LET i == la - 1 - (n \div lb)
                 j == lb - 1 - (n % lb)
                 c == NAdd(T, PGet(T, res, i + j), NMul(T, PGet(T, a, i), PGet(T, b, j)))
             IN  MulPolyFrom(T, a, b, n + 1, PSet(T, res, i + j, c))

mul_poly(T, a, b) == MulPolyFrom(T, a, b, 0, PolynomeNew)

\* Mul<T> for &Polynome: every coefficient times the scalar
PolyScale(T, p, rhs) == from_coefs([k \in 1..Len(p.coefs) |-> NMul(T, p.coefs[k], rhs)])

(***************************************************************************)
(* Characteristic polynomial of a tridiagonal matrix: src/src/eigen.rs     *)
(***************************************************************************)
\* is_tridiagonal: no entry off the three diagonals has norm_squared above
\* close_enough_to_zero
is_tridiagonal(T, m, close_enough_to_zero) ==
    \A i \in 0..(m.height - 1), j \in 0..(m.width - 1) :
        \/ i = j \/ (j > 0 /\ j - 1 = i) \/ (i > 0 /\ i - 1 = j)
        \/ ~RLt(close_enough_to_zero, NNormSq(T, MGet(m, i, j)))

\* the 2x2 expansion [a*d - c*b, (d + a) * -1, 1] of the leading block
CharPoly2(T, m) ==
    LET a == MGet(m, 0, 0)
        b == MGet(m, 0, 1)
        c == MGet(m, 1, 0)
        d == MGet(m, 1, 1)
    IN  from_coefs(<<NSub(T, NMul(T, a, d), NMul(T, c, b)),
                     NMul(T, NAdd(T, d, a), NFrom(T, R(-1))),
                     NFrom(T, R(1))>>)

\* the recurrence loop: p holds D_1 .. D_i, the next is
\* &p[i-1] * p1 - &p[i-2] * p2
RECURSIVE CharPolyFrom(_, _, _, _)
CharPolyFrom(T, m, i, p) ==
    IF i >= m.width THEN p[Len(p)]
    ELSE LET p1 == from_coefs(<<MGet(m, i, i), NFrom(T, R(-1))>>)
             p2 == NMul(T, MGet(m, i, i - 1), MGet(m, i - 1, i))
             p3 == sub_poly(T, mul_poly(T, p[i], p1), PolyScale(T, p[i - 1], p2))
         IN  CharPolyFrom(T, m, i + 1, Append(p, p3))

\* characteristic_polynomial
characteristic_polynomial(T, m) ==
    IF m.width # m.height THEN Err("NotSquare")
    ELSE IF ~is_tridiagonal(T, m, F32Lit(1, 10000)) THEN Err("NotTridiagonal")
    ELSE IF m.width = 0 THEN Ok(from_coefs(<<NFrom(T, R(0))>>))
    ELSE IF m.width = 1
         THEN Ok(from_coefs(<<NNeg(T, MGet(m, 0, 0)), NFrom(T, R(1))>>))
    ELSE IF m.width = 2 THEN Ok(CharPoly2(T, m))
    ELSE Ok(CharPolyFrom(T, m, 2,
                         <<from_coefs(<<MGet(m, 0, 0), NFrom(T, R(-1))>>),
                           CharPoly2(T, m)>>))

(***************************************************************************)
(* Inputs of the characteristic polynomial: every matrix of width and      *)
(* height up to 2, and from order 3 up the matrices with free diagonals    *)
(* and, at order 3, free corners (a non-zero corner is not tridiagonal).   *)
(* The values include products of 256 and more.                            *)
(***************************************************************************)
EigenSmallValues == {-20, -1, 0, 1, 2, 16, 17}

EigenDiagValues(n) == IF n <= 3 THEN {2, -3, 17} ELSE {2, 17}

EigenOffValues == {1, 16}

EigenCornerValues(n) == IF n <= 3 THEN {0, 1} ELSE {0}

\* an input entry of type T made from the integer v
OfInt(T, v) ==
    IF T = "Complex" THEN Cx(R(v), R(IF v = 0 THEN 0 ELSE 1)) ELSE NFrom(T, R(v))

\* the cells of an order-n matrix off the three diagonals
CornerCells(n) == {c \in (0..(n - 1)) \X (0..(n - 1)) : c[1] - c[2] \notin {-1, 0, 1}}

BandMatrices(T, n) ==
    {Mat([k \in 1..(n * n) |->
             LET i == (k - 1) \div n
                 j == (k - 1) % n
             IN  OfInt(T, IF i = j THEN dg[i]
                          ELSE IF j = i + 1 THEN up[i]
                          ELSE IF i = j + 1 THEN lo[j]
                          ELSE cr[<<i, j>>])],
         n, n) :
        dg \in [0..(n - 1) -> EigenDiagValues(n)],
        up \in [0..(n - 2) -> EigenOffValues],
        lo \in [0..(n - 2) -> EigenOffValues],
        cr \in [CornerCells(n) -> EigenCornerValues(n)]}

\* entries at, below and above the tolerance of is_tridiagonal: 0.01 (whose
\* square is 0.0001), 0.005 and 0.02; for LongInt 65536 * 65536, whose low
\* four digits are zero, and -1
ToleranceValues(T) ==
    IF T = "f32" THEN {F32Lit(1, 100), F32Lit(1, 200), F32Lit(1, 50)}
    ELSE IF T = "Complex" THEN {Cx(F32Lit(1, 100), R(0)), Cx(R(0), F32Lit(1, 200)), Cx(F32Lit(1, 100), F32Lit(1, 100))}
    ELSE {LMul(FromI32(65536), FromI32(65536)), FromI32(-1)}

\* order-3 matrices with 2 on the diagonal, 1 next to it and one corner
\* entry from ToleranceValues
ToleranceMatrices(T) ==
    {Mat([k \in 1..9 |->
             IF k \in {1, 5, 9} THEN NFrom(T, R(2))
             ELSE IF k = c THEN v ELSE IF k + c = 10 THEN NFrom(T, R(0))
             ELSE NFrom(T, R(1))], 3, 3) :
        v \in ToleranceValues(T), c \in {3, 7}}

\* matrices with a side of 3 that are not square, filled with ones
LongMatrices(T) ==
    {Mat([k \in 1..(d[1] * d[2]) |-> NFrom(T, R(1))], d[1], d[2]) :
        d \in {<<1, 3>>, <<3, 1>>, <<2, 3>>, <<3, 2>>}}

EigenInputs(T) ==
    UNION {{Mat([k \in 1..(w * h) |-> OfInt(T, f[k])], w, h) :
               f \in [1..(w * h) -> EigenSmallValues]} : w \in 0..2, h \in 0..2}
    \cup UNION {BandMatrices(T, n) : n \in 3..MaxDim}
    \cup ToleranceMatrices(T)
    \cup LongMatrices(T)

InitEigen ==
    /\ pc = "init"
    /\ ty \in NumTypes
    /\ mat \in EigenInputs(ty)
    /\ method = "none"
    /\ reortho_epsilon = <<1, 0, 0>>
    /\ out = <<>>
    /\ IdleLongInt

\* a call of characteristic_polynomial(&mat)
CharacteristicPolynomial ==
    /\ pc = "init"
    /\ pc' = "characteristic_polynomial"
    /\ out' = characteristic_polynomial(ty, mat)
    /\ UNCHANGED <<ty, mat, method, reortho_epsilon, x, y, a0, b0, hist, st>>

NextEigen == CharacteristicPolynomial

SpecEigen == InitEigen /\ [][NextEigen]_vars

(***************************************************************************)
(* Claims about the characteristic polynomial, checked under SpecEigen     *)
(***************************************************************************)
EigenDone == pc = "characteristic_polynomial"

\* the type the expected coefficients are computed in: the LongInt inputs
\* are small integers, which f32 holds and combines without rounding
MathType(T) == IF T = "LongInt" THEN "f32" ELSE T

\* the number a value of T represents, in MathType(T)
MathVal(T, v) == IF T = "LongInt" THEN R(Value(v)) ELSE v

\* the numbers a returned polynomial's coefficients represent
CoefValues(T, p) == [k \in 1..Len(p.coefs) |-> MathVal(T, p.coefs[k])]

\* two coefficient sequences of one length, equal entry by entry under T's ==
SameCoefs(T, c1, c2) ==
    /\ Len(c1) = Len(c2)
    /\ \A k \in 1..Len(c1) : NEq(T, c1[k], c2[k])

\* coefficient k of D_i, the determinant of the leading block of order i
\* minus lambda, by D_i = (a_ii - lambda) D_(i-1) - sub_i super_i D_(i-2)
RECURSIVE RefD(_, _, _)
RefD(m, i, k) ==
    IF k < 0 \/ k > i THEN 0
    ELSE IF i = 0 THEN 1
    ELSE IF i = 1 THEN (IF k = 0 THEN Value(MGet(m, 0, 0)) ELSE -1)
    ELSE Value(MGet(m, i - 1, i - 1)) * RefD(m, i - 1, k)
         - RefD(m, i - 1, k - 1)
         - Value(MGet(m, i - 1, i - 2)) * Value(MGet(m, i - 2, i - 1)) * RefD(m, i - 2, k)

TridiagonalByValue(m) ==
    \A i, j \in 0..(m.width - 1) : i - j \notin {-1, 0, 1} => IsZeroValue("LongInt", MGet(m, i, j))

\* C4: for every tridiagonal LongInt matrix of order n > 2,
\* characteristic_polynomial returns exactly the polynomial of the recurrence
\* D_i = (a_ii - lambda) D_(i-1) - A[i,i-1] A[i-1,i] D_(i-2).
C4_RecurrenceExact ==
    (/\ EigenDone /\ ty = "LongInt"
     /\ mat.width = mat.height /\ mat.width > 2 /\ TridiagonalByValue(mat))
        => /\ out.tag = "Ok"
           /\ [k \in 1..Len(out.val.coefs) |-> Value(out.val.coefs[k])]
                = [k \in 1..(mat.width + 1) |-> RefD(mat, mat.width, k - 1)]

\* C5: for every 1x1 matrix [a00], characteristic_polynomial returns
\* (a00 - lambda), ascending coefficients [a00, -1].
C5_OrderOne ==
    (EigenDone /\ mat.width = 1 /\ mat.height = 1)
        => /\ out.tag = "Ok"
           /\ SameCoefs(MathType(ty), CoefValues(ty, out.val),
                        <<MathVal(ty, MGet(mat, 0, 0)), NFrom(MathType(ty), R(-1))>>)

\* C6: for every 2x2 matrix [[a,b],[c,d]] over any numeric type,
\* characteristic_polynomial returns exactly [a*d - c*b, -(a+d), 1].
C6_OrderTwo ==
    (EigenDone /\ mat.width = 2 /\ mat.height = 2)
        => LET MT == MathType(ty)
               a  == MathVal(ty, MGet(mat, 0, 0))
               b  == MathVal(ty, MGet(mat, 0, 1))
               c  == MathVal(ty, MGet(mat, 1, 0))
               d  == MathVal(ty, MGet(mat, 1, 1))
           IN  /\ out.tag = "Ok"
               /\ SameCoefs(MT, CoefValues(ty, out.val),
                            <<NSub(MT, NMul(MT, a, d), NMul(MT, c, b)),
                              NNeg(MT, NAdd(MT, a, d)),
                              NFrom(MT, R(1))>>)

(***************************************************************************)
(* QR factorisation: src/src/qr.rs, with the Matrix helpers it uses        *)
(***************************************************************************)

\* a running sum started at 0.0.into(): acc = acc + s[k], in index order
RECURSIVE NSumFrom(_, _, _, _)
NSumFrom(T, s, k, acc) ==
    IF k > Len(s) THEN acc ELSE NSumFrom(T, s, k + 1, NAdd(T, acc, s[k]))

NSum(T, s) == NSumFrom(T, s, 1, NFrom(T, R(0)))

\* Matrix::norm_squared: the f32 sum of the entries' norm_squared
MatNormSq(T, m) ==
    NSum("f32", [k \in 1..(m.width * m.height) |-> NNormSq(T, m.elems[k])])

\* Matrix::norm
MatNorm(T, m) == RSqrt(MatNormSq(T, m))

\* Matrix::column
column(m, c) == Mat([i \in 1..m.height |-> MGet(m, i - 1, c)], 1, m.height)

\* Div<T> for Matrix: every entry divided by rhs, the first division aborting
\* where the divisor makes it abort, then from_vec(..).unwrap()
MatDiv(T, m, rhs) ==
    IF m.width * m.height > 0 /\ NDivPanics(T, rhs) THEN Aborted
    ELSE LET r == from_vec([k \in 1..(m.width * m.height) |-> NDiv(T, m.elems[k], rhs)],
                           m.width)
         IN  IF r.tag = "Ok" THEN r.val ELSE Aborted

\* f32 !=
RNe(a, b) == ~REq(a, b)

\* the dot product mirror_vecs and qr_gram_schmidt accumulate:
\* dot = dot + conjugate(a[j][ca]) * b[j][cb] over the rows j
ColumnDot(T, a, ca, b, cb) ==
    NSum(T, [j \in 1..b.height |->
                NMul(T, NConj(T, MGet(a, j - 1, ca)), MGet(b, j - 1, cb))])

\* mirror_vecs with the reflection scaled by -1: a projection, not a mirror
MirrorVecsHalf(T, vecs, mirror_direction) ==
    [vecs EXCEPT !.elems =
        [k \in 1..Len(vecs.elems) |->
            LET j == (k - 1) \div vecs.width
                i == (k - 1) % vecs.width
            IN  NAdd(T, NMul(T, NMul(T, MGet(mirror_direction, j, 0),
                                     ColumnDot(T, mirror_direction, 0, vecs, i)),
                             NFrom(T, R(-1))),
                     MGet(vecs, j, i))]]

\* mirror_vecs: per column i, dot over the column, then
\* vecs[j][i] = (mirror_direction[j] * dot * -2) + vecs[j][i]
mirror_vecs(T, vecs, mirror_direction) ==
    [vecs EXCEPT !.elems =
        [k \in 1..Len(vecs.elems) |->
            LET j == (k - 1) \div vecs.width
                i == (k - 1) % vecs.width
            IN  NAdd(T, NMul(T, NMul(T, MGet(mirror_direction, j, 0),
                                     ColumnDot(T, mirror_direction, 0, vecs, i)),
                             NFrom(T, R(-2))),
                     MGet(vecs, j, i))]]

\* the entry of v at the pivot row: a + a / a.norm() * sqrt(column_norm) unless
\* a.norm() is 0.0, when it stays the zero Matrix::new filled it with
PivotEntry(T, a, column_norm) ==
    IF RNe(NNorm(T, a), R(0))
    THEN NAdd(T, a, NMul(T, NDiv(T, a, NFrom(T, NNorm(T, a))),
                         NFrom(T, RSqrt(column_norm))))
    ELSE NFrom(T, R(0))

\* column_norm: the sum of norm_squared over the rows layer.. of column layer
ColumnNorm(T, r, layer) ==
    NSum("f32", [n \in 1..(r.width - layer) |-> NNormSq(T, MGet(r, layer + n - 1, layer))])

\* v = &v / v.norm().into()
Normalised(T, v) == MatDiv(T, v, NFrom(T, MatNorm(T, v)))

\* the normalised reflection vector v of one layer of qr_householder, or the
\* abort of the normalisation
HouseholderVector(T, r, layer) ==
    Normalised(T,
        Mat([i \in 1..r.width |->
                IF i - 1 > layer THEN MGet(r, i - 1, layer)
                ELSE IF i - 1 = layer
                     THEN PivotEntry(T, MGet(r, layer, layer), ColumnNorm(T, r, layer))
                ELSE NFrom(T, R(0))],
            1, r.width))

\* the layer loop of qr_householder: v is built from r, then r and q are
\* mirrored by it
RECURSIVE HouseholderFrom(_, _, _, _)
HouseholderFrom(T, layer, q, r) ==
    IF layer >= r.width THEN [q |-> q, r |-> r]
    ELSE Strict(HouseholderVector(T, r, layer),
                LAMBDA v :
                    IF v = Aborted THEN Aborted
                    ELSE
                    Strict([q |-> mirror_vecs(T, q, v), r |-> mirror_vecs(T, r, v)],
                           LAMBDA s : HouseholderFrom(T, layer + 1, s.q, s.r)))

\* Ok((q.transpose(), r))
QrResult(T, s) ==
    Strict(transpose(T, s.q),
           LAMBDA qt : IF qt.tag # "Ok" THEN qt ELSE Ok([q |-> qt.val, r |-> s.r]))

\* qr_householder
qr_householder(T, m) ==
    IF m.width # m.height THEN Err("NotSquare")
    ELSE Strict(HouseholderFrom(T, 0, identity(T, m.width), m),
                LAMBDA s : IF s = Aborted THEN Aborted ELSE QrResult(T, s))

\* the rotated rows of zero_by_rotation: for every column i,
\* m[column][i] = a * cos - b * sin and m[row][i] = a * sin + b * cos
Rotate(m, row, col, cos, sin) ==
    [m EXCEPT !.elems =
        [k \in 1..Len(m.elems) |->
            LET j == (k - 1) \div m.width
                i == (k - 1) % m.width
                a == MGet(m, col, i)
                b == MGet(m, row, i)
            IN  IF j = col THEN RSub(RMul(a, cos), RMul(b, sin))
                ELSE IF j = row THEN RAdd(RMul(a, sin), RMul(b, cos))
                ELSE m.elems[k]]]

\* zero_by_rotation (f32 only)
zero_by_rotation(q, r, element_to_zero_row, element_to_zero_column) ==
    LET a   == MGet(r, element_to_zero_column, element_to_zero_column)
        b   == MGet(r, element_to_zero_row, element_to_zero_column)
        ab  == RSqrt(RAdd(RMul(a, a), RMul(b, b)))
        cos == RDiv(a, ab)
        sin == RDiv(RNeg(b), ab)
    IN  [q |-> Rotate(q, element_to_zero_row, element_to_zero_column, cos, sin),
         r |-> Rotate(r, element_to_zero_row, element_to_zero_column, cos, sin)]

\* the loops of qr_givens: for i in 1..width, for j in 0..i
RECURSIVE GivensFrom(_, _, _)
GivensFrom(i, j, s) ==
    IF i >= s.r.width THEN s
    ELSE IF j >= i THEN GivensFrom(i + 1, 0, s)
    ELSE Strict(zero_by_rotation(s.q, s.r, i, j), LAMBDA t : GivensFrom(i, j + 1, t))

\* qr_givens
qr_givens(m) ==
    IF m.width # m.height THEN Err("NotSquare")
    ELSE Strict(GivensFrom(1, 0, [q |-> identity("f32", m.width), r |-> m]),
                LAMBDA s : QrResult("f32", s))

\* the call does not return: the re-orthogonalisation loop runs forever
Loops == [tag |-> "Loops"]

\* one pass of the re-orthogonalisation loop over the columns i < j of q:
\* dot = <q_i, p>, then per row k: a = p[k] - q[k][i] * dot,
\* delta += (a - p[k]).norm_squared(), p[k] = a
RECURSIVE ReorthoPass(_, _, _, _, _)
ReorthoPass(T, q, j, i, s) ==
    IF i >= j THEN s
    ELSE Strict(ColumnDot(T, q, i, s.p, 0),
                LAMBDA dot :
         Strict([k \in 1..q.width |->
                    NSub(T, s.p.elems[k], NMul(T, MGet(q, k - 1, i), dot))],
                LAMBDA a :
         Strict([p |-> [s.p EXCEPT !.elems = a],
                 delta |-> NSumFrom("f32",
                                    [k \in 1..q.width |->
                                        NNormSq(T, NSub(T, a[k], s.p.elems[k]))],
                                    1, s.delta)],
                LAMBDA s1 : ReorthoPass(T, q, j, i + 1, s1))))

\* the loop { .. if delta < reortho_epsilon { break; } }: the column p it
\* leaves, or Loops when a pass that does not break leaves a column p that
\* an earlier pass started from (a pass depends on p alone, so the passes
\* repeat from there on); seen holds the columns the passes started from
RECURSIVE ReorthoFrom(_, _, _, _, _, _)
ReorthoFrom(T, q, j, p, eps, seen) ==
    Strict(ReorthoPass(T, q, j, 0, [p |-> p, delta |-> R(0)]),
           LAMBDA s :
               IF RLt(s.delta, eps) THEN s.p
               ELSE IF s.p \in seen \cup {p} THEN Loops
               ELSE ReorthoFrom(T, q, j, s.p, eps, seen \cup {p}))

Reortho(T, q, j, p, eps) == ReorthoFrom(T, q, j, p, eps, {})

\* column j of q set to p / p.norm(), or the abort of the first division
SetColumnQ(T, q, j, p) ==
    Strict(NFrom(T, MatNorm(T, p)),
           LAMBDA n :
               IF q.width > 0 /\ NDivPanics(T, n) THEN Aborted
               ELSE
               [q EXCEPT !.elems =
                   [k \in 1..Len(q.elems) |->
                       IF (k - 1) % q.width = j
                       THEN NDiv(T, p.elems[((k - 1) \div q.width) + 1], n)
                       ELSE q.elems[k]]])

\* r[i][j] set to <q_i, mat_j> for i in 0..j + 1
SetColumnR(T, r, j, q, m) ==
    [r EXCEPT !.elems =
        [k \in 1..Len(r.elems) |->
            IF (k - 1) % r.width = j /\ (k - 1) \div r.width <= j
            THEN ColumnDot(T, q, (k - 1) \div r.width, m, j)
            ELSE r.elems[k]]]

\* the column loop of qr_gram_schmidt
RECURSIVE GramSchmidtFrom(_, _, _, _, _, _)
GramSchmidtFrom(T, m, eps, j, q, r) ==
    IF j >= m.width THEN Ok([q |-> q, r |-> r])
    ELSE Strict(Reortho(T, q, j, column(m, j), eps),
                LAMBDA p :
                    IF p = Loops THEN p
                    ELSE Strict(SetColumnQ(T, q, j, p),
                                LAMBDA q1 :
                         IF q1 = Aborted THEN Aborted
                         ELSE
                         Strict(SetColumnR(T, r, j, q1, m),
                                LAMBDA r1 : GramSchmidtFrom(T, m, eps, j + 1, q1, r1))))

\* qr_gram_schmidt
qr_gram_schmidt(T, m, reortho_eps) ==
    IF m.width # m.height THEN Err("NotSquare")
    ELSE GramSchmidtFrom(T, m, reortho_eps, 0,
                         MatrixNew(T, m.width, m.width), MatrixNew(T, m.width, m.width))

(***************************************************************************)
(* QR as a program: a real or Complex input matrix and a QRMethod, as      *)
(* read_mat hands them over, and one call of the factorisation selected.   *)
(* The inputs are the matrices with at most one non-zero entry in a        *)
(* column, the 2x2 matrices with every entry non-zero, real 2x2 matrices   *)
(* whose first column has norm 5 and 2x2 matrices whose first column has   *)
(* norm 25.                                                                *)
(***************************************************************************)
QrMethods == {"Householder", "Givens", "GramSchmidt"}

QrTypes == {"f32", "Complex"}

\* the thresholds a Gram-Schmidt call is given: make_qr's 0.1, and 0
ReorthoEpsilons == {F32Lit(1, 10), R(0)}

\* the entries of a matrix of the given number of cells
QrF32Values(cells) ==
    IF cells <= 4 THEN {-3, 1, 2, 4}
    ELSE IF cells <= 9 THEN {-1, 2}
    ELSE {1}

QrComplexValues(cells) ==
    IF cells <= 4 THEN {<<1, 0>>, <<0, 1>>, <<3, 4>>}
    ELSE IF cells <= 9 THEN {<<1, 0>>, <<0, 1>>}
    ELSE {<<1, 0>>}

QrEntries(T, cells) ==
    IF T = "f32" THEN {R(v) : v \in QrF32Values(cells)}
    ELSE {Cx(R(c[1]), R(c[2])) : c \in QrComplexValues(cells)}

\* the columns of height h with at most one non-zero entry
SparseColumns(T, w, h) ==
    {[i \in 0..(h - 1) |-> NFrom(T, R(0))]}
        \cup {[i \in 0..(h - 1) |-> IF i = at THEN v ELSE NFrom(T, R(0))] :
                 at \in 0..(h - 1), v \in QrEntries(T, w * h)}

\* the matrices made of such columns
SparseMatrices(T, w, h) ==
    {Mat([k \in 1..(w * h) |-> cols[(k - 1) % w][(k - 1) \div w]], w, h) :
        cols \in [0..(w - 1) -> SparseColumns(T, w, h)]}

\* real 2x2 matrices whose first column is (-3, 4) or (4, -3)
PythagoreanMatrices ==
    {Mat(<<R(c[1]), R(b), R(c[2]), R(d)>>, 2, 2) :
        c \in {<<-3, 4>>, <<4, -3>>}, b \in {-3, 0, 1, 4}, d \in {-3, 0, 1, 4}}

\* 2x2 matrices whose first column has the entries 7 and 24 (norm 25) and
\* whose second column is (0, 25) or (25, 0); for Complex one entry of the
\* first column is imaginary
HouseholderMatrices(T) ==
    IF T = "f32"
    THEN {Mat(<<R(7), R(c[1]), R(24), R(c[2])>>, 2, 2) : c \in {<<0, 25>>, <<25, 0>>}}
    ELSE {Mat(<<f[1], Cx(R(c[1]), R(0)), f[2], Cx(R(c[2]), R(0))>>, 2, 2) :
             f \in {<<Cx(R(7), R(0)), Cx(R(0), R(24))>>, <<Cx(R(0), R(7)), Cx(R(24), R(0))>>},
             c \in {<<0, 25>>, <<25, 0>>}}

\* the 2x2 matrices with every entry non-zero
DenseMatrices(T) == {Mat(e, 2, 2) : e \in [1..4 -> QrEntries(T, 4)]}

QrInputs(T, meth) ==
    UNION {SparseMatrices(T, w, h) : w \in 0..MaxDim, h \in 0..MaxDim}
        \cup DenseMatrices(T)
        \cup (IF T = "f32" /\ meth # "Householder" THEN PythagoreanMatrices ELSE {})
        \cup (IF meth = "Householder" THEN HouseholderMatrices(T) ELSE {})

InitQR ==
    /\ pc = "init"
    /\ ty \in QrTypes
    /\ method \in QrMethods
    /\ reortho_epsilon \in (IF method = "GramSchmidt" THEN ReorthoEpsilons ELSE {R(0)})
    /\ mat \in QrInputs(ty, method)
    /\ out = <<>>
    /\ IdleLongInt

\* a call of qr_householder(&mat)
QrHouseholder ==
    /\ pc = "init" /\ method = "Householder"
    /\ pc' = "qr_householder"
    /\ out' = qr_householder(ty, mat)
    /\ UNCHANGED <<ty, mat, method, reortho_epsilon, x, y, a0, b0, hist, st>>

\* a call of qr_givens(&mat); it takes real matrices only, and the dispatcher
\* of make_qr refuses a Complex one
QrGivens ==
    /\ pc = "init" /\ method = "Givens"
    /\ pc' = "qr_givens"
    /\ out' = IF ty = "f32" THEN qr_givens(mat) ELSE Err("UnsopportedOperation")
    /\ UNCHANGED <<ty, mat, method, reortho_epsilon, x, y, a0, b0, hist, st>>

\* a call of qr_gram_schmidt(&mat, reortho_epsilon): it returns, or it stays
\* in the re-orthogonalisation loop
QrGramSchmidt ==
    /\ pc = "init" /\ method = "GramSchmidt"
    /\ \E res \in {qr_gram_schmidt(ty, mat, reortho_epsilon)} :
          IF res = Loops
          THEN pc' = "reortho_loop" /\ out' = out
          ELSE pc' = "qr_gram_schmidt" /\ out' = res
    /\ UNCHANGED <<ty, mat, method, reortho_epsilon, x, y, a0, b0, hist, st>>

NextQR == QrHouseholder \/ QrGivens \/ QrGramSchmidt

SpecQR == InitQR /\ [][NextQR]_vars

(***************************************************************************)
(* Claims about QR, checked under SpecQR                                   *)
(***************************************************************************)
QrDone == pc \in {"qr_householder", "qr_givens", "qr_gram_schmidt"}

\* a factorisation of the 2x2 identity was asked for and the call returned
\* (Givens of a real matrix; Gram-Schmidt with the default epsilon 0.1)
IdentityFactored ==
    /\ QrDone
    /\ mat = identity(ty, 2)
    /\ method = "Givens" => ty = "f32"
    /\ method = "GramSchmidt" => reortho_epsilon = F32Lit(1, 10)

\* the matrix with -1 on the diagonal
NegIdentity(T, w) ==
    Mat([k \in 1..(w * w) |->
            IF (k - 1) \div w = (k - 1) % w THEN NFrom(T, R(-1)) ELSE NFrom(T, R(0))],
        w, w)

\* C3 as stated: each of the three QR methods (Gram-Schmidt with epsilon 0.1)
\* factors the 2x2 identity into Q = I and R = I.
C3_IdentityGivesIdentity ==
    IdentityFactored =>
        /\ out.tag = "Ok"
        /\ SameMatrix(ty, out.val.q, identity(ty, 2))
        /\ SameMatrix(ty, out.val.r, identity(ty, 2))

\* C3 amended: factoring the 2x2 identity, qr_givens and qr_gram_schmidt
\* (epsilon 0.1) return Q = I and R = I, and qr_householder returns Q = -I and
\* R = -I; for all three Q * R is the identity.
C3_IdentityFactors ==
    IdentityFactored =>
        /\ out.tag = "Ok"
        /\ SameMatrix(ty, out.val.q, IF method = "Householder" THEN NegIdentity(ty, 2)
                                      ELSE identity(ty, 2))
        /\ SameMatrix(ty, out.val.r, out.val.q)
        /\ SameMatrix(ty, MatMul(ty, out.val.q, out.val.r).val, mat)

C3_Witness ==
    /\ IdentityFactored
    /\ method = "Householder"
    /\ ty = "f32"
    /\ out.tag = "Ok"
    /\ SameMatrix(ty, out.val.q, NegIdentity("f32", 2))
    /\ SameMatrix(ty, out.val.r, NegIdentity("f32", 2))

(***************************************************************************)
(* Fraction<T>: src/src/fraction.rs, over the integer-like types f32 and   *)
(* LongInt.  A fraction is the record [num, den] the struct holds.         *)
(***************************************************************************)
FracTypes == {"f32", "LongInt"}

\* f32 >=
RGe(a, b) == REq(a, b) \/ RLt(b, a)

\* PartialOrd >=
NGe(T, a, b) == IF T = "f32" THEN RGe(a, b) ELSE LGe(a, b)

\* Rem
NRem(T, a, b) == IF T = "f32" THEN RRem(a, b) ELSE LRem(a, b)

\* NumNonRef::absolute: f32::abs, self.abs().into() for Complex, LongInt::abs
NAbsolute(T, a) ==
    IF T = "f32" THEN RAbs(a)
    ELSE IF T = "Complex" THEN NFrom(T, RSqrt(CAbsSq(a)))
    ELSE LAbs(a)

Frac(num, den) == [num |-> num, den |-> den]

\* a pair (a, b) of LongInt from which the loop of Fraction::gcd never ends: b
\* is negative with a non-zero digit and a is not below it in magnitude.
\* div_ignore_sign(a, b) then finds r >= d in every pass of its bit loop (r
\* is positive, d negative) and r - d adds |b| to r, so that a % b is a
\* positive r above |a|; in the next pass b % r is b itself (the Less branch
\* returns n), and the pair (r, b) after it is of this kind again
GcdDiverges(T, a, b) ==
    /\ T = "LongInt"
    /\ ~b.positive
    /\ \E k \in 1..Len(b.digits) : b.digits[k] # 0
    /\ ord_ignore_sign(a, b) # "Less"

\* Fraction::gcd, the loop while b != 0.0.into() { t = b; b = &a % &b; a = t }:
\* the a it returns, or Loops where the loop never ends: a pair (a, b) comes
\* back (a pass depends on the pair alone), or the pair is one the remainders
\* grow from for ever; seen holds the pairs the passes started from
RECURSIVE GcdFrom(_, _, _, _)
GcdFrom(T, a, b, seen) ==
    IF NEq(T, b, NFrom(T, R(0))) THEN a
    ELSE IF <<a, b>> \in seen \/ GcdDiverges(T, a, b) THEN Loops
    ELSE Strict(NRem(T, a, b), LAMBDA r : GcdFrom(T, b, r, seen \cup {<<a, b>>}))

\* Fraction::gcd
gcd(T, a, b) == GcdFrom(T, a, b, {})

\* Fraction::simplify: num and den divided by gcd(num, den)
simplify(T, f) ==
    Strict(gcd(T, f.num, f.den),
           LAMBDA g :
               IF g = Loops THEN Loops
               ELSE IF NDivPanics(T, g) THEN Aborted
               ELSE Frac(NDiv(T, f.num, g), NDiv(T, f.den, g)))

\* Fraction::new(den, num)
FractionNew(T, den, num) ==
    simplify(T,
        IF NGe(T, den, NFrom(T, R(0))) = NGe(T, num, NFrom(T, R(0)))
        THEN Frac(NAbsolute(T, num), NAbsolute(T, den))
        ELSE Frac(NNeg(T, NAbsolute(T, num)), NAbsolute(T, den)))

\* add_frac
add_frac(T, a, b) ==
    FractionNew(T, NMul(T, a.den, b.den),
                NAdd(T, NMul(T, a.num, b.den), NMul(T, b.num, a.den)))

\* sub_frac
sub_frac(T, a, b) ==
    FractionNew(T, NMul(T, a.den, b.den),
                NSub(T, NMul(T, a.num, b.den), NMul(T, b.num, a.den)))

\* mul_frac
mul_frac(T, a, b) ==
    FractionNew(T, NMul(T, a.den, b.den), NMul(T, a.num, b.num))

\* div_frac
div_frac(T, a, b) ==
    FractionNew(T, NMul(T, a.den, b.num), NMul(T, a.num, b.den))

(***************************************************************************)
(* The Fraction program: two fractions are built with Fraction::new from   *)
(* non-zero (den, num) pairs held in a0 and b0, then combined by one of    *)
(* the four operators.  pc = "gcd_loop" is a call that never returns;      *)
(* st = "panic" an aborted one.                                            *)
(***************************************************************************)
FracValues == {-6, -3, 2, 4, 6, 21, 55}

FracArgs(T) == {<<NFrom(T, R(d)), NFrom(T, R(n))>> : d \in FracValues, n \in FracValues}

InitFraction ==
    /\ pc = "init"
    /\ ty \in FracTypes
    /\ a0 \in FracArgs(ty)
    /\ b0 \in FracArgs(ty)
    /\ x = LongIntNew
    /\ y = LongIntNew
    /\ hist = <<>>
    /\ st = "ok"
    /\ out = <<>>
    /\ mat = <<>>
    /\ method = "none"
    /\ reortho_epsilon = <<1, 0, 0>>

\* x = Fraction::new(a0.den, a0.num); y = Fraction::new(b0.den, b0.num)
FractionConstruct ==
    /\ pc = "init"
    /\ \E fx \in {FractionNew(ty, a0[1], a0[2])}, fy \in {FractionNew(ty, b0[1], b0[2])} :
           IF fx = Loops \/ fy = Loops
           THEN pc' = "gcd_loop" /\ UNCHANGED <<x, y, st>>
           ELSE IF fx = Aborted \/ fy = Aborted
           THEN pc' = "Fraction::new" /\ st' = "panic" /\ UNCHANGED <<x, y>>
           ELSE pc' = "Fraction::new" /\ x' = fx /\ y' = fy /\ st' = st
    /\ UNCHANGED <<ty, mat, method, reortho_epsilon, out, a0, b0, hist>>

\* the bookkeeping of a call of an operator on x and y with result res
FracStore(op, res) ==
    /\ pc = "Fraction::new"
    /\ st = "ok"
    /\ IF res = Loops THEN pc' = "gcd_loop" /\ UNCHANGED <<out, st>>
       ELSE IF res = Aborted THEN pc' = op /\ st' = "panic" /\ out' = out
       ELSE pc' = op /\ out' = res /\ st' = st
    /\ UNCHANGED <<ty, mat, method, reortho_epsilon, x, y, a0, b0, hist>>

\* &x + &y
FracAdd == \E res \in {IF pc = "Fraction::new" /\ st = "ok" THEN add_frac(ty, x, y) ELSE Aborted} : FracStore("add", res)

\* &x - &y
FracSub == \E res \in {IF pc = "Fraction::new" /\ st = "ok" THEN sub_frac(ty, x, y) ELSE Aborted} : FracStore("sub", res)

\* &x * &y
FracMul == \E res \in {IF pc = "Fraction::new" /\ st = "ok" THEN mul_frac(ty, x, y) ELSE Aborted} : FracStore("mul", res)

\* &x / &y
FracDiv == \E res \in {IF pc = "Fraction::new" /\ st = "ok" THEN div_frac(ty, x, y) ELSE Aborted} : FracStore("div", res)

NextFraction == FractionConstruct \/ FracAdd \/ FracSub \/ FracMul \/ FracDiv

SpecFraction == InitFraction /\ [][NextFraction]_vars

(***************************************************************************)
(* Claims about Fraction, checked under SpecFraction                       *)
(***************************************************************************)
\* the integer a value of an integer-like T holds (0 stands in for a value
\* that is no integer, which no normal form below accepts as a denominator)
IntVal(T, v) ==
    IF T = "LongInt" THEN Value(v)
    ELSE IF IsFinite(v) /\ v[3] >= 0 THEN RToI32(v) ELSE 0

\* the normal form: positive denominator, fully reduced
NormalForm(T, f) ==
    /\ IntVal(T, f.den) > 0
    /\ Gcd(Abs(IntVal(T, f.num)), IntVal(T, f.den)) = 1

\* f is the normal form of num / den
NormalFormOf(T, f, den, num) ==
    /\ NormalForm(T, f)
    /\ IntVal(T, f.num) * den = num * IntVal(T, f.den)

FracOps == {"add", "sub", "mul", "div"}

\* C11: Fraction::new(d, a) for non-zero a, d returns the fraction a/d with a
\* positive denominator, the sign in the numerator and gcd(|num|, den) = 1
\* (new(den=4, num=6) is 3/2), and so does every +, -, *, / on such fractions
C11_FractionNormalForm ==
    /\ pc # "gcd_loop"
    /\ st = "ok"
    /\ pc = "Fraction::new" =>
           /\ NormalFormOf(ty, x, IntVal(ty, a0[1]), IntVal(ty, a0[2]))
           /\ NormalFormOf(ty, y, IntVal(ty, b0[1]), IntVal(ty, b0[2]))
    /\ (pc = "Fraction::new" /\ a0 = <<NFrom(ty, R(4)), NFrom(ty, R(6))>>) =>
           x = Frac(NFrom(ty, R(3)), NFrom(ty, R(2)))
    /\ pc \in FracOps => NormalForm(ty, out)

(***************************************************************************)
(* Solving from a factorisation: gauss_from_lu (src/src/lu.rs) and         *)
(* gauss_from_qr (src/src/qr.rs)                                           *)
(***************************************************************************)
\* l_gauss, the j loop: xi = xi - l.get(i, j) * x.get(j, 0)
RECURSIVE LRowFrom(_, _, _, _, _, _)
LRowFrom(T, l, xs, i, j, xi) ==
    IF j >= i THEN xi
    ELSE LRowFrom(T, l, xs, i, j + 1, NSub(T, xi, NMul(T, MGet(l, i, j), MGet(xs, j, 0))))

\* l_gauss, the i loop: forward substitution, no division
RECURSIVE LGaussFrom(_, _, _, _, _)
LGaussFrom(T, l, b, i, xs) ==
    IF i >= l.width THEN xs
    ELSE LGaussFrom(T, l, b, i + 1, MSet(xs, i, 0, LRowFrom(T, l, xs, i, 0, MGet(b, i, 0))))

\* l_gauss
l_gauss(T, l, b) == LGaussFrom(T, l, b, 0, MatrixNew(T, 1, l.width))

\* u_gauss / r_gauss, the j loop over the columns right of the diagonal
RECURSIVE URowFrom(_, _, _, _, _, _)
URowFrom(T, u, xs, i, j, xi) ==
    IF j >= i THEN xi
    ELSE URowFrom(T, u, xs, i, j + 1,
                  NSub(T, xi, NMul(T, MGet(u, u.width - i - 1, u.width - j - 1),
                                      MGet(xs, u.width - j - 1, 0))))

RECURSIVE UGaussNoDiv(_, _, _, _, _)
RECURSIVE UGaussFrom(_, _, _, _, _)

\* back substitution that leaves out the division by the diagonal entry
UGaussNoDiv(T, u, b, i, xs) ==
    IF i >= u.width THEN xs
    ELSE UGaussNoDiv(T, u, b, i + 1,
                     MSet(xs, u.width - i - 1, 0,
                          URowFrom(T, u, xs, i, 0, MGet(b, u.width - i - 1, 0))))

\* u_gauss / r_gauss, the i loop: back substitution from the last row up; the
\* division by a diagonal entry aborts where that division aborts
UGaussFrom(T, u, b, i, xs) ==
    IF i >= u.width THEN xs
    ELSE IF NDivPanics(T, MGet(u, u.width - i - 1, u.width - i - 1)) THEN Aborted
    ELSE UGaussFrom(T, u, b, i + 1,
                    MSet(xs, u.width - i - 1, 0,
                         NDiv(T, URowFrom(T, u, xs, i, 0, MGet(b, u.width - i - 1, 0)),
                                 MGet(u, u.width - i - 1, u.width - i - 1))))

\* u_gauss
u_gauss(T, u, b) == UGaussFrom(T, u, b, 0, MatrixNew(T, 1, u.width))

\* r_gauss
r_gauss(T, r, b) == UGaussFrom(T, r, b, 0, MatrixNew(T, 1, r.width))

\* gauss_from_lu
gauss_from_lu(T, l, u, b) ==
    IF \/ l.width # l.height
       \/ u.width # u.height
       \/ b.width # 1
       \/ b.height # l.height
       \/ l.width # u.width
    THEN Err("SizeMismatch")
    ELSE Strict(u_gauss(T, u, l_gauss(T, l, b)),
                LAMBDA xs : IF xs = Aborted THEN Aborted ELSE Ok(xs))

\* gauss_from_qr: v = (q.hermetian_transpose() * b)?; Ok(r_gauss(r, &v))
gauss_from_qr(T, q, r, b) ==
    IF \/ q.width # q.height
       \/ r.width # r.height
       \/ b.width # 1
       \/ b.height # q.height
       \/ r.width # q.width
    THEN Err("SizeMismatch")
    ELSE Strict(hermetian_transpose(T, q),
                LAMBDA qh :
                    IF qh.tag # "Ok" THEN qh
                    ELSE Strict(MatMul(T, qh.val, b),
                                LAMBDA v : IF v.tag # "Ok" THEN v
                                           ELSE Strict(r_gauss(T, r, v.val),
                                                       LAMBDA xs : IF xs = Aborted THEN Aborted
                                                                   ELSE Ok(xs))))

(***************************************************************************)
(* The solve program: one call of gauss_from_lu(a0, b0, y) or of           *)
(* gauss_from_qr(a0, b0, y).  The inputs are the triangular systems of     *)
(* order 1..MaxDim, and matrices of every shape up to 2 x 2 filled with    *)
(* ones for the size checks.                                               *)
(***************************************************************************)
SolveTypes == {"f32", "Complex"}

SolveMethods == {"lu", "qr"}

Cells(n) == (0..(n - 1)) \X (0..(n - 1))

\* unit lower-triangular matrices of order n
LowerUnit(T, n) ==
    {Mat([k \in 1..(n * n) |->
             IF (k - 1) \div n = (k - 1) % n THEN NFrom(T, R(1))
             ELSE IF (k - 1) \div n > (k - 1) % n
                  THEN OfInt(T, f[<<(k - 1) \div n, (k - 1) % n>>])
                  ELSE NFrom(T, R(0))], n, n) :
        f \in [{c \in Cells(n) : c[1] > c[2]} -> {0, 2}]}

\* upper-triangular matrices of order n with a non-zero diagonal
UpperRegular(T, n) ==
    {Mat([k \in 1..(n * n) |->
             IF (k - 1) \div n = (k - 1) % n THEN OfInt(T, dg[(k - 1) % n])
             ELSE IF (k - 1) \div n < (k - 1) % n
                  THEN OfInt(T, f[<<(k - 1) \div n, (k - 1) % n>>])
                  ELSE NFrom(T, R(0))], n, n) :
        dg \in [0..(n - 1) -> {1, -2}],
        f \in [{c \in Cells(n) : c[1] < c[2]} -> {0, 3}]}

\* right-hand sides of height n
Rhs(T, n) == {Mat([k \in 1..n |-> OfInt(T, IF k % 2 = 1 THEN v ELSE 1 - v)], 1, n) : v \in {-1, 3}}

\* the w x h matrix of ones
Ones(T, w, h) == Mat([k \in 1..(w * h) |-> NFrom(T, R(1))], w, h)

\* a square first factor for gauss_from_qr: a unit lower-triangular matrix or
\* the conjugate transpose of one
SquareFactors(T, n) ==
    LowerUnit(T, n) \cup {hermetian_transpose(T, m).val : m \in LowerUnit(T, n)}

SolveInputs(T, meth) ==
    UNION {(IF meth = "lu" THEN LowerUnit(T, n) ELSE SquareFactors(T, n))
               \X UpperRegular(T, n) \X Rhs(T, n) : n \in 1..MaxDim}
    \cup {<<Ones(T, d[1], d[2]), Ones(T, d[3], d[4]), Ones(T, d[5], d[6])>> :
              d \in (0..2) \X (0..2) \X (0..2) \X (0..2) \X (0..2) \X (0..2)}

InitSolve ==
    /\ pc = "init"
    /\ ty \in SolveTypes
    /\ method \in SolveMethods
    /\ \E t \in SolveInputs(ty, method) : a0 = t[1] /\ b0 = t[2] /\ y = t[3]
    /\ x = LongIntNew
    /\ hist = <<>>
    /\ st = "ok"
    /\ out = <<>>
    /\ mat = <<>>
    /\ reortho_epsilon = <<1, 0, 0>>

\* the bookkeeping of a returned or aborted solve
SolveStore(name, res) ==
    /\ pc' = name
    /\ IF res = Aborted THEN st' = "panic" /\ out' = out ELSE st' = st /\ out' = res
    /\ UNCHANGED <<ty, mat, method, reortho_epsilon, x, y, a0, b0, hist>>

\* a call of gauss_from_lu(&a0, &b0, &y)
GaussFromLu ==
    /\ pc = "init"
    /\ method = "lu"
    /\ \E res \in {gauss_from_lu(ty, a0, b0, y)} : SolveStore("gauss_from_lu", res)

\* a call of gauss_from_qr(&a0, &b0, &y)
GaussFromQr ==
    /\ pc = "init"
    /\ method = "qr"
    /\ \E res \in {gauss_from_qr(ty, a0, b0, y)} : SolveStore("gauss_from_qr", res)

NextSolve == GaussFromLu \/ GaussFromQr

SpecSolve == InitSolve /\ [][NextSolve]_vars

(***************************************************************************)
(* Claims about the solves, checked under SpecSolve                        *)
(***************************************************************************)
\* the tolerance results are held to: 1e-4
Tolerance == F32Lit(1, 10000)

\* the norm of m1 - m2, as Matrix::norm takes it
Distance(T, m1, m2) ==
    RSqrt(NSum("f32", [k \in 1..(m1.width * m1.height) |->
                          NNormSq(T, NSub(T, m1.elems[k], m2.elems[k]))]))

\* two matrices of one shape less than the tolerance apart
Near(T, m1, m2) ==
    /\ m1.width = m2.width
    /\ m1.height = m2.height
    /\ RLt(Distance(T, m1, m2), Tolerance)

\* square, ones on the diagonal, zeros above it
IsLowerUnit(T, m) ==
    /\ m.width = m.height
    /\ \A c \in Cells(m.width) :
           /\ c[1] = c[2] => NEq(T, MGet(m, c[1], c[2]), NFrom(T, R(1)))
           /\ c[1] < c[2] => NEq(T, MGet(m, c[1], c[2]), NFrom(T, R(0)))

\* square, zeros below the diagonal, no zero on it
IsUpperRegular(T, m) ==
    /\ m.width = m.height
    /\ \A c \in Cells(m.width) :
           /\ c[1] = c[2] => ~NEq(T, MGet(m, c[1], c[2]), NFrom(T, R(0)))
           /\ c[1] > c[2] => NEq(T, MGet(m, c[1], c[2]), NFrom(T, R(0)))

\* the conjugate transpose, entry (i, j) the conjugate of entry (j, i)
ConjTranspose(T, m) ==
    Mat([k \in 1..(m.width * m.height) |->
            NConj(T, MGet(m, (k - 1) % m.height, (k - 1) \div m.height))],
        m.height, m.width)

\* a system of order n >= 1 whose shapes fit: square factors of one order and
\* a right-hand side of width 1 and that height
SolvableShape ==
    /\ a0.width >= 1
    /\ a0.width = a0.height
    /\ b0.width = b0.height
    /\ b0.width = a0.width
    /\ y.width = 1
    /\ y.height = a0.height

\* no operation of the j loop of l_gauss was rounded
RECURSIVE LRowExact(_, _, _, _, _, _)
LRowExact(T, l, xs, i, j, xi) ==
    \/ j >= i
    \/ /\ NMulExact(T, MGet(l, i, j), MGet(xs, j, 0))
       /\ NSubExact(T, xi, NMul(T, MGet(l, i, j), MGet(xs, j, 0)))
       /\ LRowExact(T, l, xs, i, j + 1,
                    NSub(T, xi, NMul(T, MGet(l, i, j), MGet(xs, j, 0))))

\* no operation of l_gauss from row i on was rounded
RECURSIVE LGaussExact(_, _, _, _, _)
LGaussExact(T, l, b, i, xs) ==
    \/ i >= l.width
    \/ /\ LRowExact(T, l, xs, i, 0, MGet(b, i, 0))
       /\ LGaussExact(T, l, b, i + 1,
                      MSet(xs, i, 0, LRowFrom(T, l, xs, i, 0, MGet(b, i, 0))))

\* no operation of the j loop of u_gauss / r_gauss was rounded
RECURSIVE URowExact(_, _, _, _, _, _)
URowExact(T, u, xs, i, j, xi) ==
    \/ j >= i
    \/ LET p == NMul(T, MGet(u, u.width - i - 1, u.width - j - 1),
                        MGet(xs, u.width - j - 1, 0))
       IN  /\ NMulExact(T, MGet(u, u.width - i - 1, u.width - j - 1),
                           MGet(xs, u.width - j - 1, 0))
           /\ NSubExact(T, xi, p)
           /\ URowExact(T, u, xs, i, j + 1, NSub(T, xi, p))

\* no operation of u_gauss / r_gauss from step i on was rounded
RECURSIVE UGaussExact(_, _, _, _, _)
UGaussExact(T, u, b, i, xs) ==
    \/ i >= u.width
    \/ LET top == URowFrom(T, u, xs, i, 0, MGet(b, u.width - i - 1, 0))
           d   == MGet(u, u.width - i - 1, u.width - i - 1)
       IN  /\ URowExact(T, u, xs, i, 0, MGet(b, u.width - i - 1, 0))
           /\ NDivExact(T, top, d)
           /\ UGaussExact(T, u, b, i + 1, MSet(xs, u.width - i - 1, 0, NDiv(T, top, d)))

\* the arithmetic of gauss_from_lu(l, u, b) and of the products u * x and
\* l * (u * x) formed from its result x is exact
LuSolveExact(T, l, u, b, res) ==
    /\ LGaussExact(T, l, b, 0, MatrixNew(T, 1, l.width))
    /\ UGaussExact(T, u, l_gauss(T, l, b), 0, MatrixNew(T, 1, u.width))
    /\ MatMulExact(T, u, res)
    /\ MatMulExact(T, l, MatMul(T, u, res).val)

\* the arithmetic of gauss_from_qr(q, r, b) and of the product r * x formed
\* from its result x is exact
QrSolveExact(T, q, r, b, res) ==
    /\ MatMulExact(T, ConjTranspose(T, q), b)
    /\ UGaussExact(T, r, MatMul(T, ConjTranspose(T, q), b).val, 0,
                   MatrixNew(T, 1, r.width))
    /\ MatMulExact(T, r, res)

\* C12: for unit lower-triangular L and upper-triangular U with a non-zero
\* diagonal gauss_from_lu(L, U, b) returns x with L*U*x = b, and for square Q
\* and upper-triangular R with a non-zero diagonal gauss_from_qr(Q, R, b)
\* returns x with R*x = Q^H*b: exactly when the arithmetic is exact (no
\* operation of the solve and of the products is rounded), and within the
\* tolerance otherwise
C12_SolveExact ==
    /\ (pc = "gauss_from_lu" /\ SolvableShape /\ IsLowerUnit(ty, a0) /\ IsUpperRegular(ty, b0)) =>
           /\ st = "ok"
           /\ out.tag = "Ok"
           /\ Near(ty, MatMul(ty, a0, MatMul(ty, b0, out.val).val).val, y)
           /\ LuSolveExact(ty, a0, b0, y, out.val)
                => SameMatrix(ty, MatMul(ty, a0, MatMul(ty, b0, out.val).val).val, y)
    /\ (pc = "gauss_from_qr" /\ SolvableShape /\ IsUpperRegular(ty, b0)) =>
           /\ st = "ok"
           /\ out.tag = "Ok"
           /\ Near(ty, MatMul(ty, b0, out.val).val,
                       MatMul(ty, ConjTranspose(ty, a0), y).val)
           /\ QrSolveExact(ty, a0, b0, y, out.val)
                => SameMatrix(ty, MatMul(ty, b0, out.val).val,
                              MatMul(ty, ConjTranspose(ty, a0), y).val)

\* a complex system of order 3 solved from Q and R without rounding, Q with
\* an entry above the diagonal and R with a diagonal entry other than 1
C12_Witness ==
    /\ pc = "gauss_from_qr"
    /\ ty = "Complex"
    /\ a0.width = 3
    /\ IsUpperRegular(ty, b0)
    /\ ~NEq(ty, MGet(a0, 0, 2), NFrom(ty, R(0)))
    /\ ~NEq(ty, MGet(b0, 1, 1), NFrom(ty, R(1)))
    /\ out.tag = "Ok"
    /\ QrSolveExact(ty, a0, b0, y, out.val)
    /\ SameMatrix(ty, MatMul(ty, b0, out.val).val,
                  MatMul(ty, ConjTranspose(ty, a0), y).val)

SolveDone == pc \in {"gauss_from_lu", "gauss_from_qr"}

\* a factor is not square, the factors differ in size, b's width is not 1 or
\* b's height is not the factors' size
ShapesMismatch ==
    \/ a0.width # a0.height
    \/ b0.width # b0.height
    \/ a0.width # b0.width
    \/ y.width # 1
    \/ y.height # a0.height

\* C17: gauss_from_lu and gauss_from_qr return Err(SizeMismatch) whenever a
\* factor is not square, the factors differ in size, b has a width other than
\* 1 or b's height differs from the factors' size; in every other case they
\* return Ok with a vector of width 1 and height n
C17_SolveSizeChecks ==
    SolveDone =>
        /\ st = "ok"
        /\ IF ShapesMismatch THEN out = Err("SizeMismatch")
           ELSE /\ out.tag = "Ok"
                /\ out.val.width = 1
                /\ out.val.height = a0.height
                /\ Len(out.val.elems) = a0.height

(***************************************************************************)
(* The drivers of src/src/qr.rs and src/src/lu.rs: make_qr, qr_gauss,      *)
(* make_lu and lu_gauss.  A run is a directory and the processes started   *)
(* on it, each making one driver call.  mat and method are what read_mat   *)
(* returns for the A file ("None" when the file names no method), y is     *)
(* what it returns for the b file, a0 holds the Q file and the R file, b0  *)
(* the L file and the U file, and x is the x file, which qr_gauss and      *)
(* lu_gauss both write.                                                    *)
(***************************************************************************)
DriverMethods == QrMethods \cup {"None"}

\* the number of driver calls of a run
MaxCalls == 2

\* a file that File::open does not find
NoFile == [tag |-> "NoFile"]

\* write_mat_f32 and write_mat_complex: the file holds the entries of m, each
\* f32 printed with {}; a Complex matrix is written as complex([re],[im])
WriteMat(T, m) == [tag |-> "File", ty |-> T, mat |-> m]

\* read_float on what {} prints for v: a text that starts with neither a
\* digit nor '-' is refused, which are "NaN" and "inf"; every other text
\* parses to v again
ReadFloatFails(v) == IsNaN(v) \/ v = FInf(1)

\* the f32 values written for a file, the real parts and the imaginary parts
\* for a Complex matrix
FileFloats(f) ==
    IF f.ty = "f32" THEN {f.mat.elems[k] : k \in 1..Len(f.mat.elems)}
    ELSE {f.mat.elems[k].re : k \in 1..Len(f.mat.elems)}
             \cup {f.mat.elems[k].im : k \in 1..Len(f.mat.elems)}

\* read_mat on a file written by WriteMat: Either::Left for one matrix,
\* Either::Right for two joined by ","; "[]" has no float to read
ReadMat(f) ==
    IF Len(f.mat.elems) = 0 \/ \E v \in FileFloats(f) : ReadFloatFails(v)
    THEN Err("InvalidFileFormat")
    ELSE Ok([ty |-> f.ty, mat |-> f.mat])

\* make_qr, the match on method and on the matrix type; the threshold of a
\* Gram-Schmidt call is 0.1
MakeQrFactor(T, meth, m) ==
    IF meth = "Householder" THEN qr_householder(T, m)
    ELSE IF meth = "Givens"
         THEN (IF T = "f32" THEN qr_givens(m) ELSE Err("UnsopportedOperation"))
         ELSE qr_gram_schmidt(T, m, F32Lit(1, 10))

\* make_qr, the print of ((q * r)? - mat)?.norm() after the files are written
MakeQrPrint(T, f, m) ==
    Strict(MatMul(T, f.val.q, f.val.r),
           LAMBDA p :
               IF p.tag # "Ok" THEN p
               ELSE Strict(MatSub(T, p.val, m),
                           LAMBDA d : IF d.tag # "Ok" THEN d ELSE f))

\* make_qr in a directory with the Q file qf and the R file rf: factor, write
\* the two files, print; res is what the call returns (Ok carries the factors
\* written), q and r are the files it leaves
make_qr(T, meth, m, qf, rf) ==
    Strict(MakeQrFactor(T, meth, m),
           LAMBDA f :
               IF f.tag # "Ok" THEN [res |-> f, q |-> qf, r |-> rf]
               ELSE [res |-> MakeQrPrint(T, f, m),
                     q |-> WriteMat(T, f.val.q),
                     r |-> WriteMat(T, f.val.r)])

\* qr_gauss, the factorisation made when a Q or R file is missing
QrGaussFactor(T, meth, m) ==
    IF meth \in {"Householder", "None"} THEN qr_householder(T, m)
    ELSE IF meth = "GramSchmidt" THEN qr_gram_schmidt(T, m, F32Lit(1, 10))
    ELSE IF T = "f32" THEN qr_givens(m)
    ELSE Aborted

\* qr_gauss, the match on the Q and the R file: both are read when both
\* open, and the A file and its method are then not looked at
QrGaussFactors(T, meth, m, qf, rf) ==
    IF qf # NoFile /\ rf # NoFile
    THEN LET q == ReadMat(qf)
             r == ReadMat(rf)
         IN  IF q.tag # "Ok" THEN q
             ELSE IF r.tag # "Ok" THEN r
             ELSE Ok([q |-> q.val, r |-> r.val])
    ELSE Strict(QrGaussFactor(T, meth, m),
                LAMBDA f :
                    IF f.tag # "Ok" THEN f
                    ELSE Ok([q |-> [ty |-> T, mat |-> f.val.q],
                             r |-> [ty |-> T, mat |-> f.val.r]]))

\* qr_gauss, the print of ((q * (r * x)?)? - b)?.norm() after x is written
QrGaussPrint(T, q, r, xs, b) ==
    Strict(MatMul(T, r, xs),
           LAMBDA rx :
               IF rx.tag # "Ok" THEN rx
               ELSE Strict(MatMul(T, q, rx.val),
                           LAMBDA qrx :
                               IF qrx.tag # "Ok" THEN qrx
                               ELSE Strict(MatSub(T, qrx.val, b),
                                           LAMBDA d : IF d.tag # "Ok" THEN d ELSE Ok(xs))))

\* qr_gauss for a b of type T in a directory with the files qf, rf and xf:
\* the factors, unwrap_left or unwrap_right on them, gauss_from_qr(q, r, &b),
\* the x file, the print; res is what the call returns (Ok carries the x
\* written), x is the x file it leaves
qr_gauss(T, meth, m, b, qf, rf, xf) ==
    Strict(QrGaussFactors(T, meth, m, qf, rf),
           LAMBDA f :
               IF f.tag # "Ok" THEN [res |-> f, x |-> xf]
               ELSE IF f.val.q.ty # T \/ f.val.r.ty # T THEN [res |-> Aborted, x |-> xf]
               ELSE Strict(gauss_from_qr(T, f.val.q.mat, f.val.r.mat, b),
                           LAMBDA xs :
                               IF xs.tag # "Ok" THEN [res |-> xs, x |-> xf]
                               ELSE [res |-> QrGaussPrint(T, f.val.q.mat, f.val.r.mat,
                                                          xs.val, b),
                                     x |-> WriteMat(T, xs.val)]))

\* make_lu, the print of ((l * u)? - &mat)?.norm() after the files are written
MakeLuPrint(T, f, m) ==
    Strict(MatMul(T, f.val.l, f.val.u),
           LAMBDA p :
               IF p.tag # "Ok" THEN p
               ELSE Strict(MatSub(T, p.val, m),
                           LAMBDA d : IF d.tag # "Ok" THEN d ELSE f))

\* make_lu in a directory with the L file lf and the U file uf: factor, write
\* the two files, print; res is what the call returns (Ok carries the factors
\* written), l and u are the files it leaves
make_lu(T, m, lf, uf) ==
    Strict(lu_decomposition(T, m),
           LAMBDA f :
               IF f.tag # "Ok" THEN [res |-> f, l |-> lf, u |-> uf]
               ELSE [res |-> MakeLuPrint(T, f, m),
                     l |-> WriteMat(T, f.val.l),
                     u |-> WriteMat(T, f.val.u)])

\* lu_gauss, the match on the L and the U file: both are read when both
\* open, and the A file is factored otherwise
LuGaussFactors(T, m, lf, uf) ==
    IF lf # NoFile /\ uf # NoFile
    THEN LET l == ReadMat(lf)
             u == ReadMat(uf)
         IN  IF l.tag # "Ok" THEN l
             ELSE IF u.tag # "Ok" THEN u
             ELSE Ok([l |-> l.val, u |-> u.val])
    ELSE Strict(lu_decomposition(T, m),
                LAMBDA f :
                    IF f.tag # "Ok" THEN f
                    ELSE Ok([l |-> [ty |-> T, mat |-> f.val.l],
                             u |-> [ty |-> T, mat |-> f.val.u]]))

\* lu_gauss, the print of ((l * (u * x)?)? - b)?.norm() after x is written
LuGaussPrint(T, l, u, xs, b) ==
    Strict(MatMul(T, u, xs),
           LAMBDA ux :
               IF ux.tag # "Ok" THEN ux
               ELSE Strict(MatMul(T, l, ux.val),
                           LAMBDA lux :
                               IF lux.tag # "Ok" THEN lux
                               ELSE Strict(MatSub(T, lux.val, b),
                                           LAMBDA d : IF d.tag # "Ok" THEN d ELSE Ok(xs))))

\* lu_gauss for a b of type T in a directory with the files lf, uf and xf:
\* the factors, unwrap_left or unwrap_right on them, gauss_from_lu(l, u, &b),
\* the x file, the print; res is what the call returns (Ok carries the x
\* written), x is the x file it leaves
lu_gauss(T, m, b, lf, uf, xf) ==
    Strict(LuGaussFactors(T, m, lf, uf),
           LAMBDA f :
               IF f.tag # "Ok" THEN [res |-> f, x |-> xf]
               ELSE IF f.val.l.ty # T \/ f.val.u.ty # T THEN [res |-> Aborted, x |-> xf]
               ELSE Strict(gauss_from_lu(T, f.val.l.mat, f.val.u.mat, b),
                           LAMBDA xs :
                               IF xs.tag # "Ok" THEN [res |-> xs, x |-> xf]
                               ELSE [res |-> LuGaussPrint(T, f.val.l.mat, f.val.u.mat,
                                                          xs.val, b),
                                     x |-> WriteMat(T, xs.val)]))

\* the non-zero entries of the A file of a run
DriverEntries(T) ==
    IF T = "f32" THEN {R(-3), R(4)} ELSE {Cx(R(3), R(4)), Cx(R(0), R(1))}

\* the A file of a run; the matrices read_mat returns have a row and a
\* column at least
DriverInputs(T) ==
    {m \in UNION {SparseMatrices(T, w, h) : w \in 1..2, h \in 1..2} :
        \A k \in 1..Len(m.elems) :
            m.elems[k] = NFrom(T, R(0)) \/ m.elems[k] \in DriverEntries(T)}

\* the factor files a run starts with, written by earlier calls: none, a Q
\* and an L file alone, or the identity for all four over f32 or over Complex
DriverFiles(n) ==
    {[q |-> NoFile, r |-> NoFile, l |-> NoFile, u |-> NoFile],
     [q |-> WriteMat("f32", identity("f32", n)), r |-> NoFile,
      l |-> WriteMat("f32", identity("f32", n)), u |-> NoFile]}
        \cup {[q |-> WriteMat(T, identity(T, n)), r |-> WriteMat(T, identity(T, n)),
               l |-> WriteMat(T, identity(T, n)), u |-> WriteMat(T, identity(T, n))] :
                 T \in QrTypes}

InitDriver ==
    /\ pc = "init"
    /\ ty \in QrTypes
    /\ method \in DriverMethods
    /\ reortho_epsilon = F32Lit(1, 10)
    /\ mat \in DriverInputs(ty)
    /\ y = Ones(ty, 1, mat.height)
    /\ out = <<>>
    /\ x = NoFile
    /\ \E f \in DriverFiles(mat.height) :
           /\ a0 = [q |-> f.q, r |-> f.r]
           /\ b0 = [l |-> f.l, u |-> f.u]
    /\ hist = <<>>
    /\ st = "ok"

\* a process can be started while none is in the re-orthogonalisation loop
DriverIdle == pc # "reortho_loop" /\ Len(hist) < MaxCalls

\* the bookkeeping of a process: its call returns res, aborts (st = "panic")
\* or stays in the re-orthogonalisation loop
DriverStore(name, res) ==
    /\ IF res = Loops THEN pc' = "reortho_loop" /\ st' = "ok" /\ out' = <<>>
       ELSE IF res = Aborted THEN pc' = name /\ st' = "panic" /\ out' = <<>>
       ELSE pc' = name /\ st' = "ok" /\ out' = res
    /\ hist' = Append(hist, name)
    /\ UNCHANGED <<ty, mat, method, reortho_epsilon, y>>

\* a process calling make_qr
MakeQr ==
    /\ DriverIdle
    /\ \E f \in {make_qr(ty, method, mat, a0.q, a0.r)} :
           /\ DriverStore("make_qr", f.res)
           /\ a0' = [q |-> f.q, r |-> f.r]
    /\ UNCHANGED <<b0, x>>

\* a process calling qr_gauss
QrGauss ==
    /\ DriverIdle
    /\ \E f \in {qr_gauss(ty, method, mat, y, a0.q, a0.r, x)} :
           /\ DriverStore("qr_gauss", f.res)
           /\ x' = f.x
    /\ UNCHANGED <<a0, b0>>

\* a process calling make_lu
MakeLu ==
    /\ DriverIdle
    /\ \E f \in {make_lu(ty, mat, b0.l, b0.u)} :
           /\ DriverStore("make_lu", f.res)
           /\ b0' = [l |-> f.l, u |-> f.u]
    /\ UNCHANGED <<a0, x>>

\* a process calling lu_gauss
LuGauss ==
    /\ DriverIdle
    /\ \E f \in {lu_gauss(ty, mat, y, b0.l, b0.u, x)} :
           /\ DriverStore("lu_gauss", f.res)
           /\ x' = f.x
    /\ UNCHANGED <<a0, b0>>

NextDriver == MakeQr \/ QrGauss \/ MakeLu \/ LuGauss

SpecDriver == InitDriver /\ [][NextDriver]_vars

(***************************************************************************)
(* Claims about the drivers, checked under SpecDriver                      *)
(***************************************************************************)
\* C13: with the Givens method selected for a Complex matrix, make_qr and
\* qr_gauss (factoring on demand, a Q or R file being absent) return
\* Err(UnsopportedOperation) to the caller; neither aborts the process or
\* runs another method
C13_GivensComplexRefused ==
    (/\ pc \in {"make_qr", "qr_gauss"}
     /\ method = "Givens"
     /\ ty = "Complex"
     /\ pc = "qr_gauss" => (a0.q = NoFile \/ a0.r = NoFile)) =>
        /\ st = "ok"
        /\ out = Err("UnsopportedOperation")

(***************************************************************************)
(* Claims about the factors Q and R, checked under SpecQR                  *)
(***************************************************************************)
\* the determinant of a square matrix of order up to 3
Det(T, m) ==
    IF m.width = 0 THEN NFrom(T, R(1))
    ELSE IF m.width = 1 THEN MGet(m, 0, 0)
    ELSE IF m.width = 2
         THEN NSub(T, NMul(T, MGet(m, 0, 0), MGet(m, 1, 1)),
                      NMul(T, MGet(m, 0, 1), MGet(m, 1, 0)))
         ELSE LET minor(a, b) ==
                      NSub(T, NMul(T, MGet(m, 1, a), MGet(m, 2, b)),
                              NMul(T, MGet(m, 1, b), MGet(m, 2, a)))
              IN  NAdd(T, NSub(T, NMul(T, MGet(m, 0, 0), minor(1, 2)),
                                  NMul(T, MGet(m, 0, 1), minor(0, 2))),
                          NMul(T, MGet(m, 0, 2), minor(0, 1)))

\* a square matrix of order >= 1 with linearly independent columns
RegularSquare(T, m) ==
    /\ m.width = m.height
    /\ m.width >= 1
    /\ ~NEq(T, Det(T, m), NFrom(T, R(0)))

\* the entries below the diagonal, zero within the tolerance
IsUpperTriangular(T, m) ==
    \A c \in Cells(m.width) : c[1] > c[2] => RLt(NNorm(T, MGet(m, c[1], c[2])), Tolerance)

\* Q*R = A and Q^H*Q = I within the tolerance, and R upper-triangular
IsQrOf(T, q, r, a) ==
    /\ Near(T, MatMul(T, q, r).val, a)
    /\ Near(T, MatMul(T, ConjTranspose(T, q), q).val, identity(T, a.width))
    /\ IsUpperTriangular(T, r)

\* C14: for every square real or complex matrix A on which the chosen QR
\* method is defined, the returned (Q, R) satisfy Q*R = A and Q^H*Q = I
\* within the tolerance with R upper-triangular, complex inputs of
\* qr_householder included
C14_QrFactorises ==
    (QrDone /\ RegularSquare(ty, mat) /\ ~(method = "Givens" /\ ty = "Complex")) =>
        /\ out.tag = "Ok"
        /\ IsQrOf(ty, out.val.q, out.val.r, mat)

(***************************************************************************)
(* Claims about the preconditions of characteristic_polynomial, checked    *)
(* under SpecEigen                                                         *)
(***************************************************************************)
\* an entry whose squared norm is not below 1e-4; for LongInt, a non-zero entry
NotNegligible(T, v) ==
    IF T = "LongInt" THEN \E k \in 1..Len(v.digits) : v.digits[k] # 0
    ELSE IF T = "Complex"
         THEN ~RLt(RAdd(RMul(v.re, v.re), RMul(v.im, v.im)), F32Lit(1, 10000))
         ELSE ~RLt(RMul(v, v), F32Lit(1, 10000))

\* some entry outside the main, sub- and super-diagonal is not negligible
HasOffBandEntry(T, m) ==
    \E i \in 0..(m.height - 1), j \in 0..(m.width - 1) :
        /\ i - j \notin {-1, 0, 1}
        /\ NotNegligible(T, MGet(m, i, j))

\* C15: characteristic_polynomial returns Err(NotSquare) for every matrix
\* with width # height, checked first; Err(NotTridiagonal) for every square
\* matrix with an entry off the three diagonals whose squared norm is not
\* below 1e-4 (LongInt: any non-zero such entry); Ok for every other input
C15_EigenPreconditions ==
    EigenDone =>
        IF mat.width # mat.height THEN out = Err("NotSquare")
        ELSE IF HasOffBandEntry(ty, mat) THEN out = Err("NotTridiagonal")
        ELSE out.tag = "Ok"

(***************************************************************************)
(* The four factorisations side by side: a run starts as an LU run or as a *)
(* QR run and makes one call; lu_decomposition is also called on the       *)
(* inputs of the QR runs.                                                  *)
(***************************************************************************)
InitFactor == InitLU \/ InitQR

NextFactor == NextLU \/ NextQR

SpecFactor == InitFactor /\ [][NextFactor]_vars

\* one of the four factorisation functions was called and returned; qr_givens
\* takes real matrices only
FactorDone ==
    \/ pc \in {"lu_decomposition", "qr_householder", "qr_gram_schmidt"}
    \/ pc = "qr_givens" /\ ty = "f32"

\* C16: lu_decomposition, qr_householder, qr_givens and qr_gram_schmidt return
\* Err(NotSquare) for every matrix with width # height, before any other
\* check or computation, and never return NotSquare for a square matrix
C16_NotSquareFirst ==
    FactorDone => (mat.width # mat.height <=> out = Err("NotSquare"))

\* lu_decomposition was called on a matrix that is not square and whose first
\* pivot is zero, and returned NotSquare
C16_Witness ==
    /\ pc = "lu_decomposition"
    /\ mat.width = 2
    /\ mat.height = 3
    /\ PivotIsZero(ty, mat.elems[1])
    /\ out = Err("NotSquare")

(***************************************************************************)
(* The Matrix operators on their own: src/src/matrix.rs.  A run holds two  *)
(* matrices a0 and b0 and a scalar y of the type ty, and makes one call.   *)
(***************************************************************************)
\* Mul<T> for Matrix: rhs * every entry, then from_vec(..).unwrap()
MatScale(T, m, rhs) ==
    LET r == from_vec([k \in 1..(m.width * m.height) |-> NMul(T, rhs, m.elems[k])],
                      m.width)
    IN  IF r.tag = "Ok" THEN r.val ELSE Aborted

scalarRow(x0, w) == Mat([k \in 1..w |-> x0], w, 1)

\* Matrix::scalar: a square matrix all of whose entries are x
scalar(x0, w) == Mat([k \in 1..(w * w) |-> x0], w, w)

\* Matrix::row
row(m, r) == Mat([i \in 1..m.width |-> MGet(m, r, i - 1)], m.width, 1)

\* the unwrapped result of transpose and hermetian_transpose
Unwrapped(r) == IF r.tag = "Ok" THEN r.val ELSE Aborted

(***************************************************************************)
(* The program around the Matrix operators                                 *)
(***************************************************************************)
\* the largest width and height of an operand
MaxSide == 2

\* the entry of value n; a Complex entry has the imaginary part n - 2
RampEntry(T, n) == IF T = "Complex" THEN Cx(R(n), R(n - 2)) ELSE NFrom(T, R(n))

\* the w x h matrix whose entries count up from v0 + 1 in row-major order
Ramp(T, w, h, v0) == Mat([k \in 1..(w * h) |-> RampEntry(T, v0 + k)], w, h)

MatrixOperands(T) ==
    {Ramp(T, w, h, v0) : w \in 0..MaxSide, h \in 0..MaxSide, v0 \in {-2, 1}}

\* the scalars of * and /, and the value scalar fills with: two non-zero
\* values and zero
MatrixScalars(T) == {RampEntry(T, 2), RampEntry(T, -3), NFrom(T, R(0))}

\* the operand combinations of the binary operators
Ownership == {"owned owned", "owned borrowed", "borrowed owned", "borrowed borrowed"}

InitMatrix ==
    /\ pc = "init"
    /\ ty \in NumTypes
    /\ a0 \in MatrixOperands(ty)
    /\ b0 \in MatrixOperands(ty)
    /\ y \in MatrixScalars(ty)
    /\ x = LongIntNew
    /\ method = "matrix"
    /\ hist = <<>>
    /\ st = "ok"
    /\ out = <<>>
    /\ mat = a0
    /\ reortho_epsilon = <<1, 0, 0>>

\* no call was made yet, and the run is one of the Matrix operators
MatrixCall == pc = "init" /\ method = "matrix"

\* the bookkeeping of a returned or aborted call
MatrixStore(name, own, res) ==
    /\ pc' = name
    /\ method' = own
    /\ IF res = Aborted THEN st' = "panic" /\ out' = out ELSE st' = st /\ out' = res
    /\ UNCHANGED <<ty, mat, reortho_epsilon, x, y, a0, b0, hist>>

\* Matrix::new(w, h)
New ==
    /\ MatrixCall
    /\ \E w \in 0..MaxSide, h \in 0..MaxSide : MatrixStore("new", method, MatrixNew(ty, w, h))

\* Matrix::from_vec(a0.elems, w)
FromVec ==
    /\ MatrixCall
    /\ \E w \in 0..(MaxSide + 1) : MatrixStore("from_vec", method, from_vec(a0.elems, w))

\* Matrix::identity(w)
Identity ==
    /\ MatrixCall
    /\ \E w \in 0..MaxSide : MatrixStore("identity", method, identity(ty, w))

\* Matrix::scalar(y, w); the width asked for is kept in hist
Scalar ==
    /\ MatrixCall
    /\ \E w \in 0..MaxSide :
           /\ pc' = "scalar"
           /\ out' = scalar(y, w)
           /\ hist' = <<w>>
    /\ UNCHANGED <<ty, mat, method, reortho_epsilon, x, y, a0, b0, st>>

\* a0.transpose()
Transpose ==
    /\ MatrixCall
    /\ MatrixStore("transpose", method, Unwrapped(transpose(ty, a0)))

\* a0.hermetian_transpose()
HermetianTranspose ==
    /\ MatrixCall
    /\ MatrixStore("hermetian_transpose", method, Unwrapped(hermetian_transpose(ty, a0)))

\* a0.row(r) for a row a0 has
Row ==
    /\ MatrixCall
    /\ \E r \in 0..(a0.height - 1) : MatrixStore("row", method, row(a0, r))

\* a0.column(c) for a column a0 has
Column ==
    /\ MatrixCall
    /\ \E c \in 0..(a0.width - 1) : MatrixStore("column", method, column(a0, c))

\* a0 + b0
Add ==
    /\ MatrixCall
    /\ \E own \in Ownership : MatrixStore("add", own, MatAdd(ty, a0, b0))

\* a0 - b0
Sub ==
    /\ MatrixCall
    /\ \E own \in Ownership : MatrixStore("sub", own, MatSub(ty, a0, b0))

\* a0 * b0
Mul ==
    /\ MatrixCall
    /\ \E own \in Ownership : MatrixStore("mul", own, MatMul(ty, a0, b0))

\* a0 * y
Scale ==
    /\ MatrixCall
    /\ MatrixStore("scale", method, MatScale(ty, a0, y))

\* a0 / y
Divide ==
    /\ MatrixCall
    /\ MatrixStore("divide", method, MatDiv(ty, a0, y))

NextMatrix ==
    \/ New
    \/ FromVec
    \/ Identity
    \/ Scalar
    \/ Transpose
    \/ HermetianTranspose
    \/ Row
    \/ Column
    \/ Add
    \/ Sub
    \/ Mul
    \/ Scale
    \/ Divide

SpecMatrix == InitMatrix /\ [][NextMatrix]_vars

(***************************************************************************)
(* Claims about the Matrix operators, checked under SpecMatrix             *)
(***************************************************************************)
\* a call that came back, with a value or with an Err
Returned(name) == pc = name /\ st = "ok"

\* the sum over k < n of lhs[i][k] * rhs[k][j]
RECURSIVE RowDotColumn(_, _, _, _, _, _)
RowDotColumn(T, a, b, i, j, n) ==
    IF n = 0 THEN NFrom(T, R(0))
    ELSE NAdd(T, RowDotColumn(T, a, b, i, j, n - 1),
              NMul(T, MGet(a, i, n - 1), MGet(b, n - 1, j)))

\* m has the shape w x h and its entry (i, j) is F[i, j]
HasEntries(T, m, w, h, F) ==
    /\ m.width = w
    /\ m.height = h
    /\ Len(m.elems) = w * h
    /\ \A i \in 0..(h - 1), j \in 0..(w - 1) : NEq(T, MGet(m, i, j), F[i, j])

\* C18: with any of the four operand combinations, + and - return
\* Err(SizeMismatch) exactly when the widths or the heights of the operands
\* differ and * exactly when lhs.width # rhs.height; an Ok result of + and -
\* has the shape of the operands and the entrywise sum and difference, an Ok
\* result of * has the height of lhs, the width of rhs and at (i, j) the dot
\* product of row i of lhs and column j of rhs
C18_BinaryOperators ==
    /\ Returned("add") =>
           /\ out = Err("SizeMismatch") <=> (a0.width # b0.width \/ a0.height # b0.height)
           /\ out.tag = "Ok" =>
                  HasEntries(ty, out.val, a0.width, a0.height,
                             [i \in 0..(a0.height - 1), j \in 0..(a0.width - 1) |->
                                 NAdd(ty, MGet(a0, i, j), MGet(b0, i, j))])
    /\ Returned("sub") =>
           /\ out = Err("SizeMismatch") <=> (a0.width # b0.width \/ a0.height # b0.height)
           /\ out.tag = "Ok" =>
                  HasEntries(ty, out.val, a0.width, a0.height,
                             [i \in 0..(a0.height - 1), j \in 0..(a0.width - 1) |->
                                 NSub(ty, MGet(a0, i, j), MGet(b0, i, j))])
    /\ Returned("mul") =>
           /\ out = Err("SizeMismatch") <=> a0.width # b0.height
           /\ out.tag = "Ok" =>
                  HasEntries(ty, out.val, b0.width, a0.height,
                             [i \in 0..(a0.height - 1), j \in 0..(b0.width - 1) |->
                                 RowDotColumn(ty, a0, b0, i, j, a0.width)])

\* a 2 x 2 difference of two different operands, taken with a borrowed lhs
\* and an owned rhs
C18_Witness ==
    /\ Returned("sub")
    /\ method = "borrowed owned"
    /\ a0.width = 2
    /\ a0.height = 2
    /\ a0 # b0
    /\ out.tag = "Ok"

\* the operators that return a Matrix, and those that return a Result
MatrixValued ==
    {"new", "identity", "scalar", "transpose", "hermetian_transpose", "row", "column",
     "scale", "divide"}

ResultValued == {"from_vec", "add", "sub", "mul"}

\* elems.len() == width * height
WellShaped(m) == Len(m.elems) = m.width * m.height

\* C19: every Matrix that new, identity, scalar, transpose,
\* hermetian_transpose, row, column, the scalar * and / return, and every Ok
\* result of from_vec, +, - and *, has elems.len() == width * height; the
\* transpose and the hermetian_transpose of a w x h matrix, square or not,
\* have width h, height w and at (j, i) the entry (i, j) of the original,
\* conjugated for hermetian_transpose
C19_ShapeInvariant ==
    /\ (pc \in MatrixValued /\ st = "ok") => WellShaped(out)
    /\ (pc \in ResultValued /\ st = "ok" /\ out.tag = "Ok") => WellShaped(out.val)
    /\ pc = "transpose" =>
           /\ st = "ok"
           /\ HasEntries(ty, out, a0.height, a0.width,
                         [j \in 0..(a0.width - 1), i \in 0..(a0.height - 1) |->
                             MGet(a0, i, j)])
    /\ pc = "hermetian_transpose" =>
           /\ st = "ok"
           /\ HasEntries(ty, out, a0.height, a0.width,
                         [j \in 0..(a0.width - 1), i \in 0..(a0.height - 1) |->
                             NConj(ty, MGet(a0, i, j))])

(***************************************************************************)
(* The core operations side by side: a run makes one call of a Matrix      *)
(* operator or of one of the four factorisations.                          *)
(***************************************************************************)
InitCore == InitMatrix \/ InitFactor

NextCore == NextMatrix \/ NextFactor

SpecCore == InitCore /\ [][NextCore]_vars

\* C20: no core operation aborts outside the stated fatal conditions; in
\* particular Matrix::from_vec returns Ok or Err(SizeMismatch) for every
\* width, the width 0 included, and transpose, lu_decomposition and the QR
\* factorisations of the 0 x 0 matrix Matrix::new(0, 0) return
C20_Total ==
    /\ pc = "from_vec" =>
           /\ st = "ok"
           /\ out.tag = "Ok" \/ out = Err("SizeMismatch")
    /\ (pc = "transpose" /\ a0 = MatrixNew(ty, 0, 0)) => st = "ok"
    /\ (FactorDone /\ mat = MatrixNew(ty, 0, 0)) => out.tag # "Panic"

(***************************************************************************)
(* LongInt::to_decimal: src/src/longint.rs.  A String is the sequence of   *)
(* its characters.                                                         *)
(***************************************************************************)
DigitChars == <<"0", "1", "2", "3", "4", "5", "6", "7", "8", "9">>

\* u8::to_string().chars().next(): the leading decimal digit of a u8
FirstChar(d) ==
    DigitChars[(IF d >= 100 THEN d \div 100 ELSE IF d >= 10 THEN d \div 10 ELSE d) + 1]

\* chars().rev().collect()
Reversed(s) == [k \in 1..Len(s) |-> s[Len(s) + 1 - k]]

\* to_decimal, the loop: while div > 0, (div, digit) = div_ignore_sign(div, 10)
\* and the leading character of digit.get(0) is pushed
RECURSIVE DecimalLoop(_, _)
DecimalLoop(div, s) ==
    IF ~LGt(div, FromI32(0)) THEN s
    ELSE Strict(div_ignore_sign(div, FromI32(10)),
                LAMBDA qr : DecimalLoop(qr.q, Append(s, FirstChar(Get(qr.r, 0)))))

\* LongInt::to_decimal; Display writes the same string
to_decimal(a) ==
    IF LEq(a, FromI32(0)) THEN <<"0">>
    ELSE (IF LGe(a, FromI32(0)) THEN <<>> ELSE <<"-">>) \o Reversed(DecimalLoop(LAbs(a), <<>>))

(***************************************************************************)
(* The LongInt functions one at a time: a run constructs x and y, may      *)
(* apply one operator to them, and reads the result with to_decimal; or it *)
(* compares x and y.                                                       *)
(***************************************************************************)
\* the i32 values x and y are constructed from: both signs, zero, magnitudes
\* of one digit below and above 128, and of two digits
FnI32Inputs == {-33023, -300, -200, -3, -1, 0, 1, 3, 10, 200, 255, 256, 300, 33023}

InitLongIntFn ==
    /\ IdleEngines
    /\ x \in {LongIntNew} \cup {FromI32(v) : v \in FnI32Inputs}
    /\ y \in {LongIntNew} \cup {FromI32(v) : v \in FnI32Inputs}
    /\ a0 = x
    /\ b0 = y
    /\ hist = <<>>
    /\ st = "ok"

\* x = x op y was executed and gave v
FnStore(op, v) ==
    /\ pc = "init"
    /\ pc' = op
    /\ x' = v
    /\ UNCHANGED <<ty, mat, method, reortho_epsilon, out, y, a0, b0, hist, st>>

\* x / y or x % y hit the division-by-zero panic
FnPanic(op) ==
    /\ pc = "init"
    /\ pc' = op
    /\ st' = "panic"
    /\ UNCHANGED <<ty, mat, method, reortho_epsilon, out, x, y, a0, b0, hist>>

FnAdd == FnStore("add", LAdd(x, y))

FnSub == FnStore("sub", LSub(x, y))

FnMul == FnStore("mul", LMul(x, y))

FnDiv == IF div_ignore_sign(x, y).panic THEN FnPanic("div") ELSE FnStore("div", LDiv(x, y))

FnRem == IF div_ignore_sign(x, y).panic THEN FnPanic("rem") ELSE FnStore("rem", LRem(x, y))

FnNeg == FnStore("neg", LNeg(x))

\* x.partial_cmp(&y)
FnCmp ==
    /\ pc = "init"
    /\ pc' = "partial_cmp"
    /\ out' = partial_cmp(x, y)
    /\ UNCHANGED <<ty, mat, method, reortho_epsilon, x, y, a0, b0, hist, st>>

\* x.to_decimal(), of a constructed x or of the result of the operator
FnToDecimal ==
    /\ pc \in {"init", "add", "sub", "mul", "div", "rem", "neg"}
    /\ st = "ok"
    /\ pc' = "to_decimal"
    /\ out' = to_decimal(x)
    /\ hist' = Append(hist, pc)
    /\ UNCHANGED <<ty, mat, method, reortho_epsilon, x, y, a0, b0, st>>

NextLongIntFn ==
    \/ FnAdd
    \/ FnSub
    \/ FnMul
    \/ FnDiv
    \/ FnRem
    \/ FnNeg
    \/ FnCmp
    \/ FnToDecimal

SpecLongIntFn == InitLongIntFn /\ [][NextLongIntFn]_vars

(***************************************************************************)
(* Claims about the LongInt functions, checked under SpecLongIntFn         *)
(***************************************************************************)
\* the decimal digits of n > 0, most significant first
RECURSIVE DecimalDigits(_)
DecimalDigits(n) ==
    IF n = 0 THEN <<>> ELSE Append(DecimalDigits(n \div 10), DigitChars[(n % 10) + 1])

\* the canonical decimal string of the integer n
Decimal(n) ==
    IF n = 0 THEN <<"0">>
    ELSE IF n < 0 THEN <<"-">> \o DecimalDigits(-n)
    ELSE DecimalDigits(n)

\* C21: to_decimal (and Display) of every LongInt built by LongInt::new, by
\* From<i32>, or from such values by +, -, *, / or negation is the canonical
\* decimal string of the integer it represents: '-' only for negative values,
\* no leading zeros, "0" for every representation of zero
C21_ToDecimalCanonical ==
    (pc = "to_decimal" /\ hist[1] \in {"init", "add", "sub", "mul", "div", "neg"})
        => out = Decimal(Value(x))

(***************************************************************************)
(* Claims about Matrix::scalar, checked under SpecMatrix                   *)
(***************************************************************************)
\* x * identity(n), for n >= 1
ScaledIdentity(T, v, n) == MatScale(T, identity(T, n), v)

\* C22: Matrix::scalar(x, n) is an n x n matrix all of whose n * n cells
\* equal x; for n >= 2 and x # 0 some cell of it differs in value from the
\* same cell of x * identity(n)
C22_ScalarFillsEveryCell ==
    Returned("scalar") =>
        /\ out.width = hist[1]
        /\ out.height = hist[1]
        /\ Len(out.elems) = hist[1] * hist[1]
        /\ \A k \in 1..Len(out.elems) : out.elems[k] = y
        /\ (hist[1] >= 2 /\ ~IsZeroValue(ty, y)) =>
               \E k \in 1..Len(out.elems) :
                   MathVal(ty, out.elems[k])
                       # MathVal(ty, ScaledIdentity(ty, y, hist[1]).elems[k])

\* scalar was called with n = 2
C22_Witness ==
    /\ Returned("scalar")
    /\ hist = <<2>>
    /\ ~IsZeroValue(ty, y)
    /\ out.elems[2] = y

(***************************************************************************)
(* Claims about the LongInt operators, checked under SpecLongIntFn         *)
(***************************************************************************)
\* C23: for all a, b of every sign combination, with magnitudes that include
\* multi-digit values so that borrows and carries occur, a + b and a - b
\* represent exactly the integer sum and difference of the values of a and b
C23_AddSubExact ==
    /\ pc = "add" => Value(x) = Value(a0) + Value(b0)
    /\ pc = "sub" => Value(x) = Value(a0) - Value(b0)

\* the values of the operands of the operator that ran
N0 == Abs(Value(a0))

D0 == Abs(Value(b0))

\* C24: for all n and every d of non-zero value, each of either sign, n / d
\* and n % d are the quotient and the remainder of long division on the
\* magnitudes: |n| = |n / d| * |d| + (n % d) with 0 <= n % d < |d|, and the
\* quotient is negative exactly when the signs of the operands differ and
\* the quotient is not zero
C24_DivRemExact ==
    /\ (pc = "div" /\ D0 # 0) =>
           /\ st = "ok"
           /\ Abs(Value(x)) = N0 \div D0
           /\ Value(x) < 0 <=> (a0.positive # b0.positive /\ N0 \div D0 # 0)
    /\ (pc = "rem" /\ D0 # 0) =>
           /\ st = "ok"
           /\ Value(x) = N0 % D0

\* the order of two integers
IntOrder(m, n) == IF m < n THEN "Less" ELSE IF m > n THEN "Greater" ELSE "Equal"

\* C25: partial_cmp orders any two LongInts as their signed integer values,
\* also when both are negative and when they store different numbers of
\* digits
C25_OrderByValue ==
    pc = "partial_cmp" => out = IntOrder(Value(x), Value(y))

\* mul_ignore_sign, the largest value the u16 `mul` takes in the row of the
\* digit d, and the carry the row ends with
RECURSIVE MulPeak(_, _, _, _)
MulPeak(a, d, j, carry) ==
    IF j >= Len(a.digits) THEN [peak |-> 0, carry |-> carry]
    ELSE LET mul  == Get(a, j) * d + carry
             rest == MulPeak(a, d, j + 1, mul \div Base)
         IN  [peak |-> Max(mul, rest.peak), carry |-> rest.carry]

\* C26: for all a, b, a * b represents exactly the integer product of their
\* values; every a_j * b_i + carry fits in 16 bits and the last carry of a
\* row fits in one digit; the product is negative exactly when the signs of
\* the operands differ; LongInt::from(300) * LongInt::from(300) formats as
\* "90000"
C26_MulExact ==
    /\ (pc = "mul" \/ (pc = "to_decimal" /\ hist = <<"mul">>)) =>
           /\ Value(x) = Value(a0) * Value(b0)
           /\ x.positive <=> (a0.positive <=> b0.positive)
           /\ \A i \in 0..(Len(b0.digits) - 1) :
                  /\ MulPeak(a0, Get(b0, i), 0, 0).peak < 65536
                  /\ MulPeak(a0, Get(b0, i), 0, 0).carry < Base
    /\ (pc = "to_decimal" /\ hist = <<"mul">> /\ a0 = FromI32(300) /\ b0 = FromI32(300)) =>
           out = <<"9", "0", "0", "0", "0">>

\* 300 * 300 was computed and formatted
C26_Witness ==
    /\ pc = "to_decimal"
    /\ hist = <<"mul">>
    /\ a0 = FromI32(300)
    /\ b0 = FromI32(300)
    /\ out = <<"9", "0", "0", "0", "0">>

(***************************************************************************)
(* Polynome as a program: src/src/poly.rs.  A run of sets starts from      *)
(* Polynome::new() in x and assigns coefficients one after the other; a    *)
(* binary run holds two polynomials a0 and b0 and applies one operator.    *)
(***************************************************************************)
\* the most sets one run makes
MaxSets == 3

\* the highest power a set writes and a get reads
MaxPower == 2

\* the most coefficients an operand of a binary operator stores
MaxCoefs == 2

\* the values assigned: zero, both signs; for LongInt also the zero a product
\* by zero returns (eight zero digits)
SetValues(T) ==
    {NFrom(T, R(0)), NFrom(T, R(1)), NFrom(T, R(-2))}
        \cup (IF T = "LongInt" THEN {LMul(FromI32(0), FromI32(3))} ELSE {})

\* the coefficients of the operands: zero, small values of both signs; for
\* LongInt also a value of two digits
CoefValues0(T) ==
    {NFrom(T, R(v)) : v \in {-2, -1, 0, 1, 2}}
        \cup (IF T = "LongInt" THEN {FromI32(256)} ELSE {})

PolyOperands(T) ==
    UNION {{from_coefs(c) : c \in [1..n -> CoefValues0(T)]} : n \in 0..MaxCoefs}

InitPoly ==
    /\ pc = "init"
    /\ ty \in NumTypes
    /\ method \in {"set", "binary"}
    /\ IF method = "set"
       THEN a0 = PolynomeNew /\ b0 = PolynomeNew
       ELSE a0 \in PolyOperands(ty) /\ b0 \in PolyOperands(ty)
    /\ x = PolynomeNew
    /\ y = PolynomeNew
    /\ hist = <<>>
    /\ st = "ok"
    /\ out = <<>>
    /\ mat = <<>>
    /\ reortho_epsilon = <<1, 0, 0>>

\* x.set(power, val); hist keeps the power, the value and the length before
PolySet ==
    /\ method = "set"
    /\ Len(hist) < MaxSets
    /\ \E power \in 0..MaxPower, val \in SetValues(ty) :
           /\ x' = PSet(ty, x, power, val)
           /\ hist' = Append(hist, <<power, val, Len(x.coefs)>>)
    /\ pc' = "set"
    /\ UNCHANGED <<ty, mat, method, reortho_epsilon, out, y, a0, b0, st>>

\* the bookkeeping of a binary operator
PolyStore(name, res) ==
    /\ pc = "init"
    /\ method = "binary"
    /\ pc' = name
    /\ out' = res
    /\ UNCHANGED <<ty, mat, method, reortho_epsilon, x, y, a0, b0, hist, st>>

\* &a0 + &b0
PolyAdd == PolyStore("add_poly", add_poly(ty, a0, b0))

\* &a0 - &b0
PolySub == PolyStore("sub_poly", sub_poly(ty, a0, b0))

\* &a0 * &b0
PolyMul == PolyStore("mul_poly", mul_poly(ty, a0, b0))

NextPoly == PolySet \/ PolyAdd \/ PolySub \/ PolyMul

SpecPoly == InitPoly /\ [][NextPoly]_vars

(***************************************************************************)
(* Claims about Polynome, checked under SpecPoly                           *)
(***************************************************************************)
\* the value the latest of the first n sets assigned at power p, or the
\* additive identity if none of them assigned there
RECURSIVE LastAssigned(_, _, _, _)
LastAssigned(T, h, n, p) ==
    IF n = 0 THEN NFrom(T, R(0))
    ELSE IF h[n][1] = p THEN h[n][2]
    ELSE LastAssigned(T, h, n - 1, p)

\* C27: after any sequence of sets, get(p) is the value most recently
\* assigned at p, or the additive identity if nothing was assigned there or
\* p is beyond the stored length; the stored length never decreases, and it
\* grows, to exactly p + 1, only when a value that is not zero is assigned at
\* a power p >= the current length
C27_GetSetLength ==
    (method = "set" /\ hist # <<>>) =>
        LET last   == hist[Len(hist)]
            before == last[3]
            after  == Len(x.coefs)
        IN  /\ \A p \in 0..(MaxPower + 1) :
                   NEq(MathType(ty), MathVal(ty, PGet(ty, x, p)),
                       MathVal(ty, LastAssigned(ty, hist, Len(hist), p)))
            /\ after >= before
            /\ after > before =>
                   /\ after = last[1] + 1
                   /\ last[1] >= before
                   /\ ~IsZeroValue(ty, last[2])

\* the number the coefficient of power k of p represents
CoefAt(T, p, k) == MathVal(T, PGet(T, p, k))

\* the sum over i <= n of a.get(i) * b.get(k - i); the coefficients are small
\* integers, which f32 adds and multiplies without rounding
RECURSIVE Convolution(_, _, _, _, _)
Convolution(T, a, b, k, n) ==
    IF n < 0 THEN NFrom(MathType(T), R(0))
    ELSE NAdd(MathType(T), Convolution(T, a, b, k, n - 1),
              NMul(MathType(T), CoefAt(T, a, n), CoefAt(T, b, k - n)))

\* C28: for all polynomials a, b with coefficients from a bounded integer
\* set, zero leading coefficients and cancelling products included,
\* (a * b).get(k) is the sum over i + j = k of a.get(i) * b.get(j) for every
\* k >= 0, (a + b).get(k) = a.get(k) + b.get(k) and
\* (a - b).get(k) = a.get(k) - b.get(k), and the sum and the difference store
\* at most max(len a, len b) coefficients
C28_PolyArithmetic ==
    LET len == Max(Len(a0.coefs), Len(b0.coefs))
    IN  /\ pc = "mul_poly" =>
               \A k \in 0..(2 * MaxCoefs) :
                   NEq(MathType(ty), CoefAt(ty, out, k), Convolution(ty, a0, b0, k, k))
        /\ pc = "add_poly" =>
               /\ Len(out.coefs) <= len
               /\ \A k \in 0..len :
                      NEq(MathType(ty), CoefAt(ty, out, k),
                          NAdd(MathType(ty), CoefAt(ty, a0, k), CoefAt(ty, b0, k)))
        /\ pc = "sub_poly" =>
               /\ Len(out.coefs) <= len
               /\ \A k \in 0..len :
                      NEq(MathType(ty), CoefAt(ty, out, k),
                          NSub(MathType(ty), CoefAt(ty, a0, k), CoefAt(ty, b0, k)))

(***************************************************************************)
(* Claims about the termination of qr_gram_schmidt, checked under SpecQR   *)
(***************************************************************************)
\* C29: qr_gram_schmidt terminates on every square input for every
\* reortho_epsilon, positive, zero or negative: no call stays in the
\* re-orthogonalisation loop of a column, the first column included, whose
\* pass projects nothing and accumulates the squared change 0
C29_GramSchmidtTerminates == pc # "reortho_loop"

(***************************************************************************)
(* Claims about the termination of Fraction::new, checked under            *)
(* SpecFraction                                                            *)
(***************************************************************************)
\* C30: Fraction::new(den, num) terminates for all non-zero num and den of
\* either sign, in particular over LongInt: the loop a, b = b, a mod b of
\* Fraction::gcd reaches b = 0 after finitely many steps and no call stays
\* in it
C30_FractionNewTerminates == pc # "gcd_loop"

====
